---- MODULE Spec2Model ----
(***************************************************************************)
(* A model of the exam scheduler backend (app/scheduler.py and the code    *)
(* around it): the allocation engine allocate_students and the date        *)
(* selector select_optimal_dates.  Both are pure functions of their        *)
(* arguments; each is an operator of this module, computed the way the     *)
(* Python code computes it, and applied by one action to inputs that Init  *)
(* draws from bounded sets.                                                *)
(*                                                                         *)
(* Encoding of Python values:                                              *)
(*   list            a sequence                                            *)
(*   dict            a function; {} is the function with empty domain      *)
(*   Optional[x]     None is << >>, a present value x is << x >>           *)
(*   register number a positive integer (an opaque identifier)             *)
(*   date token      << dd, mm, yy >>, the three numeric fields of the     *)
(*                   text "dd-mm-yy"; << dd, mm, yy, " " >> is the same    *)
(*                   text followed by whitespace                           *)
(*   semester/batch name   a sequence of one-character strings, so that    *)
(*                   concatenation and lexicographic order are computed    *)
(***************************************************************************)
EXTENDS Integers, Sequences, FiniteSets, TLC

VARIABLES
  \* arguments of allocate_students
  register_numbers, dates, labs, internal_examiners, external_examiners,
  semesters, date_subjects, date_register_numbers,
  \* its return value and whether it has run
  schedules, pc,
  \* arguments of select_optimal_dates
  available_dates, student_count, min_gap_days,
  \* its outcome and whether it has run
  selection, sel_pc,
  \* the day counts an entry point of app/main.py reports
  planning,
  \* argument and returned pair of remove_duplicates
  raw_numbers, unique_numbers, removed_duplicates,
  \* argument and return value of parse_dates, and which of the two has run
  date_strings, sorted_strings, parse_pc,
  \* argument of format_csv_register_numbers, the CSV text it returns, and
  \* what parse_csv_register_numbers reads back from that text
  csv_numbers, csv_content, csv_parsed,
  \* the request body a client sends; each entry point is called with an
  \* object of its own built from it
  payload,
  \* the request object of generate_schedule, its response, the calls of
  \* allocate_students it made, and whether it has run
  request, response, allocate_calls, gen_pc,
  \* the request object of validate_schedule, built from the same body, and
  \* the answer of validate_schedule, None before the call
  validate_request, validate_response,
  \* analyze_image: the upload; the models posted to and the replies got, in
  \* order; the loop position and the outcome of analyze_image_with_groq;
  \* the answer of the entry point; the position of the handler
  upload, attempts, replies, model_index, analysis, image_response, img_pc

alloc_vars == << register_numbers, dates, labs, internal_examiners,
                 external_examiners, semesters, date_subjects,
                 date_register_numbers, schedules, pc >>
sel_vars == << available_dates, student_count, min_gap_days, selection, sel_pc, planning >>
parse_vars == << raw_numbers, unique_numbers, removed_duplicates, date_strings,
                 sorted_strings, parse_pc, csv_numbers, csv_content, csv_parsed >>
gen_vars == << payload, request, response, allocate_calls, gen_pc, validate_request,
              validate_response >>
img_vars == << upload, attempts, replies, model_index, analysis, image_response, img_pc >>
vars == << alloc_vars, sel_vars, parse_vars, gen_vars, img_vars >>

(***************************************************************************)
(* Program constants (app/scheduler.py).                                   *)
(***************************************************************************)
STUDENTS_PER_LAB == 25
FORENOON_CAPACITY == 13
AFTERNOON_CAPACITY == 12
LABS_PER_DAY == 5
DAILY_CAPACITY == STUDENTS_PER_LAB * LABS_PER_DAY
FORENOON_TIME == "09:30 am - 12:30 pm"
AFTERNOON_TIME == "01:30 pm - 04:30 pm"

(***************************************************************************)
(* Bounds of the model.                                                    *)
(***************************************************************************)
MaxStudents == 130
MaxLabs == 6
MaxDates == 2

(***************************************************************************)
(* Python helpers.                                                         *)
(***************************************************************************)
None == << >>
Some(x) == << x >>
Min(a, b) == IF a <= b THEN a ELSE b
Max(a, b) == IF a >= b THEN a ELSE b
\* s[lo:hi] with 0 <= lo and 0 <= hi (Python slice, 0-based, hi exclusive)
Slice(s, lo, hi) == SubSeq(s, Min(lo, Len(s)) + 1, Min(hi, Len(s)))
\* d.get(k, default)
DictGet(d, k, default) == IF k \in DOMAIN d THEN d[k] ELSE default
\* d.get(k), an Optional
DictGetOpt(d, k) == IF k \in DOMAIN d THEN Some(d[k]) ELSE None
EmptyDict == [k \in {} |-> None]

(***************************************************************************)
(* Text: a string that the code concatenates or orders is a sequence of    *)
(* one-character strings.  Python orders strings by code point; Alphabet   *)
(* lists the characters of the model in code-point order.                  *)
(***************************************************************************)
CharCode(c) ==
  LET Alphabet == << " ", ",", "0", "1", "2", "3", "4", "5", "6", "7", "8", "9",
                     "A", "B", "C", "D", "E", "F", "G", "H", "I", "J", "K", "L", "M",
                     "N", "O", "P", "Q", "R", "S", "T", "U", "V", "W", "X", "Y", "Z" >>
  IN  CHOOSE i \in DOMAIN Alphabet : Alphabet[i] = c

\* a < b for Python strings
RECURSIVE StrLess(_, _)
StrLess(a, b) ==
  IF Len(b) = 0 THEN FALSE
  ELSE IF Len(a) = 0 THEN TRUE
  ELSE IF CharCode(Head(a)) # CharCode(Head(b))
       THEN CharCode(Head(a)) < CharCode(Head(b))
       ELSE StrLess(Tail(a), Tail(b))

\* sorted(set_of_strings)
RECURSIVE SortedStrings(_)
SortedStrings(S) ==
  IF S = {} THEN << >>
  ELSE LET least == CHOOSE x \in S : \A y \in S \ {x} : StrLess(x, y)
       IN  << least >> \o SortedStrings(S \ {least})

\* sep.join(parts)
RECURSIVE Join(_, _)
Join(sep, parts) ==
  IF Len(parts) = 0 THEN << >>
  ELSE IF Len(parts) = 1 THEN parts[1]
  ELSE parts[1] \o sep \o Join(sep, Tail(parts))

(***************************************************************************)
(* Cohort lookup: reg_to_sem_batch of allocate_students.                   *)
(***************************************************************************)
RECURSIVE SemesterEntries(_, _)
SemesterEntries(sem_name, batches) ==
  IF Len(batches) = 0 THEN << >>
  ELSE LET \* the assignments reg_to_sem_batch[reg_no] = (sem_name, f"{sem_name}{batch_name}")
           \* of one batch, in the order the loop performs them
           BatchEntries(batch) ==
             [i \in 1..Len(batch.register_numbers) |->
                << batch.register_numbers[i], << sem_name, sem_name \o batch.name >> >>]
       IN  BatchEntries(Head(batches)) \o SemesterEntries(sem_name, Tail(batches))

RECURSIVE CohortEntries(_)
CohortEntries(sems) ==
  IF Len(sems) = 0 THEN << >>
  ELSE SemesterEntries(Head(sems).name, Head(sems).batches) \o CohortEntries(Tail(sems))

\* the dict after all assignments: a later assignment to a key overwrites an earlier one
RegToSemBatch(sems) ==
  LET e == CohortEntries(sems)
      LastIndex(r) == CHOOSE i \in DOMAIN e :
                        /\ e[i][1] = r
                        /\ \A j \in DOMAIN e : e[j][1] = r => j <= i
  IN  [r \in {e[i][1] : i \in DOMAIN e} |-> e[LastIndex(r)][2]]

(***************************************************************************)
(* Cohort attribution of one chunk.  batch_counts is a dict, which keeps   *)
(* its keys in insertion order: a sequence of << key, count >>.            *)
(***************************************************************************)
RECURSIVE BatchCounts(_, _, _)
BatchCounts(chunk, lookup, counts) ==
  LET \* batch_counts[key] = batch_counts.get(key, 0) + 1
      CountsAdd(key) ==
        IF \E i \in DOMAIN counts : counts[i][1] = key
        THEN [i \in DOMAIN counts |->
                IF counts[i][1] = key THEN << key, counts[i][2] + 1 >> ELSE counts[i]]
        ELSE Append(counts, << key, 1 >>)
  IN  IF Len(chunk) = 0 THEN counts
      ELSE BatchCounts(Tail(chunk), lookup,
                       IF Head(chunk) \in DOMAIN lookup
                       THEN CountsAdd(lookup[Head(chunk)])
                       ELSE counts)

\* Variant of MostCommon that takes the first item of least count.
MostCommon_LeastCommon(counts) ==
  LET i == CHOOSE k \in DOMAIN counts :
             /\ \A j \in DOMAIN counts : counts[j][2] >= counts[k][2]
             /\ \A j \in DOMAIN counts : counts[j][2] = counts[k][2] => k <= j
  IN  counts[i]

\* Variant of MostCommon that takes the last item of maximal count.
MostCommon_LastOfTied(counts) ==
  LET i == CHOOSE k \in DOMAIN counts :
             /\ \A j \in DOMAIN counts : counts[j][2] <= counts[k][2]
             /\ \A j \in DOMAIN counts : counts[j][2] = counts[k][2] => j <= k
  IN  counts[i]

\* max(batch_counts.items(), key=lambda x: x[1]): the first item of maximal count
MostCommon(counts) ==
  LET i == CHOOSE k \in DOMAIN counts :
             /\ \A j \in DOMAIN counts : counts[j][2] <= counts[k][2]
             /\ \A j \in DOMAIN counts : counts[j][2] = counts[k][2] => k <= j
  IN  counts[i]

\* << semester, batch >> of a chunk, each Optional
CohortOf(chunk, lookup) ==
  IF DOMAIN lookup = {} THEN << None, None >>
  ELSE LET counts == BatchCounts(chunk, lookup, << >>)
       IN  IF Len(counts) = 0 THEN << None, None >>
           ELSE LET most_common == MostCommon(counts)
                    all_batches == SortedStrings({counts[i][1][2] : i \in DOMAIN counts})
                IN  << Some(most_common[1][1]),
                       IF Len(counts) > 1
                       THEN Some(Join(<< ",", " " >>, all_batches))
                       ELSE Some(most_common[1][2]) >>

(***************************************************************************)
(* Time slots and lab schedules.                                           *)
(***************************************************************************)
\* TimeSlot(capacity=len(register_numbers)) with capacity: Field(ge=0, le=13)
\* of app/models.py: more than 13 register numbers raise a ValidationError
SLOT_CAPACITY_LIMIT == 13
SlotValidationError == [raised |-> "ValidationError", field |-> "capacity"]
create_time_slot(session, regs) ==
  IF Len(regs) > SLOT_CAPACITY_LIMIT THEN SlotValidationError
  ELSE IF session = "forenoon"
  THEN [time |-> FORENOON_TIME, session |-> "forenoon",
        capacity |-> Len(regs), register_numbers |-> regs]
  ELSE [time |-> AFTERNOON_TIME, session |-> "afternoon",
        capacity |-> Len(regs), register_numbers |-> regs]

\* Variants of split_into_slots with a slip in a slice bound: the afternoon
\* one short, the afternoon starting one early, the forenoon one short.
split_into_slots_AfternoonShort(students) ==
  << Slice(students, 0, FORENOON_CAPACITY),
     Slice(students, FORENOON_CAPACITY, FORENOON_CAPACITY + AFTERNOON_CAPACITY - 1) >>
split_into_slots_Overlap(students) ==
  << Slice(students, 0, FORENOON_CAPACITY),
     Slice(students, FORENOON_CAPACITY - 1, FORENOON_CAPACITY + AFTERNOON_CAPACITY) >>
split_into_slots_ForenoonShort(students) ==
  << Slice(students, 0, FORENOON_CAPACITY - 1),
     Slice(students, FORENOON_CAPACITY - 1, FORENOON_CAPACITY + AFTERNOON_CAPACITY) >>

\* (forenoon, afternoon)
split_into_slots(students) ==
  << Slice(students, 0, FORENOON_CAPACITY),
     Slice(students, FORENOON_CAPACITY, FORENOON_CAPACITY + AFTERNOON_CAPACITY) >>

\* LabSchedule(...) of app/models.py validates the values it is given: lab
\* has min_length=1, and an examiner dict becomes an Examiner, whose id and
\* name have min_length=1; the other fields take any string.  None when all
\* fields pass, otherwise the pydantic ValidationError with the locations of
\* the failing fields in the order of the fields of the class.
LabValidationError(lab, internal_examiner, external_examiner) ==
  LET ExaminerErrors(field, examiner) ==
        IF examiner = None THEN << >>
        ELSE (IF examiner[1].id = "" THEN << << field, "id" >> >> ELSE << >>)
             \o (IF examiner[1].name = "" THEN << << field, "name" >> >> ELSE << >>)
      errors == (IF lab = "" THEN << << "lab" >> >> ELSE << >>)
                \o ExaminerErrors("internal_examiner", internal_examiner)
                \o ExaminerErrors("external_examiner", external_examiner)
  IN  IF Len(errors) = 0 THEN None
      ELSE Some([raised |-> "ValidationError", fields |-> errors])

\* Variant of create_lab_schedule that lists the afternoon slot first.
create_lab_schedule_AfternoonFirst(date, lab, students, internal_examiner, external_examiner, semester, batch, subject) ==
  LET parts == split_into_slots(students)
      forenoon == create_time_slot("forenoon", parts[1])
      afternoon == create_time_slot("afternoon", parts[2])
      error == LabValidationError(lab, internal_examiner, external_examiner)
  IN  IF "raised" \in DOMAIN forenoon THEN forenoon
      ELSE IF "raised" \in DOMAIN afternoon THEN afternoon
      ELSE IF error # None THEN error[1]
      ELSE [date |-> date, subject |-> subject, lab |-> lab,
            slots |-> << afternoon, forenoon >>,
            internal_examiner |-> internal_examiner,
            external_examiner |-> external_examiner,
            semester |-> semester, batch |-> batch]

\* The LabSchedule, or the ValidationError the call raises: that of the
\* forenoon TimeSlot, else that of the afternoon TimeSlot, else that of
\* LabSchedule(...) itself.
create_lab_schedule(date, lab, students, internal_examiner, external_examiner, semester, batch, subject) ==
  LET parts == split_into_slots(students)
      forenoon == create_time_slot("forenoon", parts[1])
      afternoon == create_time_slot("afternoon", parts[2])
      error == LabValidationError(lab, internal_examiner, external_examiner)
  IN  IF "raised" \in DOMAIN forenoon THEN forenoon
      ELSE IF "raised" \in DOMAIN afternoon THEN afternoon
      ELSE IF error # None THEN error[1]
      ELSE [date |-> date, subject |-> subject, lab |-> lab,
            slots |-> << forenoon, afternoon >>,
            internal_examiner |-> internal_examiner,
            external_examiner |-> external_examiner,
            semester |-> semester, batch |-> batch]

(***************************************************************************)
(* allocate_students.  ctx holds the arguments that the loops only read:   *)
(* labs, internal_examiners, external_examiners and the cohort lookup.     *)
(* The state of the loops is st = [student_index, schedules, raised]:      *)
(* raised is None until the building of a schedule raises, and then holds  *)
(* the exception, which ends every loop and the call.                      *)
(***************************************************************************)
\* Variant of ChunkEnd that ends every chunk one candidate early.
ChunkEnd_OneShort(student_index, total_students) ==
  Min(student_index + STUDENTS_PER_LAB - 1, total_students)

\* chunk_end = min(student_index + STUDENTS_PER_LAB, total_students)
ChunkEnd(student_index, total_students) ==
  Min(student_index + STUDENTS_PER_LAB, total_students)

\* Variant of ExaminerFor that stays on the last examiner instead of wrapping.
ExaminerFor_NoWrap(examiners, lab_index) ==
  IF Len(examiners) = 0 THEN None
  ELSE Some(examiners[Min(lab_index, Len(examiners) - 1) + 1])

\* examiners[lab_index % len(examiners)] if examiners else None
ExaminerFor(examiners, lab_index) ==
  IF Len(examiners) = 0 THEN None
  ELSE Some(examiners[(lab_index % Len(examiners)) + 1])

\* the schedule record of one non-empty chunk
ChunkSchedule(ctx, date, subject, lab_index, chunk) ==
  LET cohort == CohortOf(chunk, ctx.reg_to_sem_batch)
  IN  create_lab_schedule(date, ctx.labs[lab_index + 1], chunk,
                          ExaminerFor(ctx.internal_examiners, lab_index),
                          ExaminerFor(ctx.external_examiners, lab_index),
                          cohort[1], cohort[2], subject)

\* schedules.append(lab_schedule); student_index = chunk_end: the state
\* after the chunk that ends at chunk_end, whose schedule create_lab_schedule
\* returned or failed to build
After(st, chunk_end, built) ==
  IF "raised" \in DOMAIN built THEN [st EXCEPT !.raised = Some(built)]
  ELSE [st EXCEPT !.student_index = chunk_end, !.schedules = Append(st.schedules, built)]

\* Variant of LabLoop that emits a record for every lab, also for a lab that
\* gets no candidate.
RECURSIVE LabLoop_EmitsEmpty(_, _, _, _, _, _)
LabLoop_EmitsEmpty(ctx, students, date, subject, lab_index, st) ==
  IF st.raised # None THEN st
  ELSE IF lab_index >= Len(ctx.labs) THEN st
  ELSE LET chunk_end == ChunkEnd(st.student_index, Len(students))
           chunk == Slice(students, st.student_index, chunk_end)
       IN  LabLoop_EmitsEmpty(ctx, students, date, subject, lab_index + 1,
                   After(st, chunk_end, ChunkSchedule(ctx, date, subject, lab_index, chunk)))

\* for lab_index, lab in enumerate(labs): ... over the list students, from
\* lab_index on
RECURSIVE LabLoop(_, _, _, _, _, _)
LabLoop(ctx, students, date, subject, lab_index, st) ==
  IF st.raised # None THEN st
  ELSE IF lab_index >= Len(ctx.labs) THEN st
  ELSE IF st.student_index >= Len(students) THEN st
  ELSE LET chunk_end == ChunkEnd(st.student_index, Len(students))
           chunk == Slice(students, st.student_index, chunk_end)
       IN  LabLoop(ctx, students, date, subject, lab_index + 1,
                   IF Len(chunk) > 0
                   THEN After(st, chunk_end,
                              ChunkSchedule(ctx, date, subject, lab_index, chunk))
                   ELSE st)

\* sequential mode: for date in dates over the one list register_numbers
RECURSIVE SequentialDates(_, _, _, _, _)
SequentialDates(ctx, regs, ds, subjects, st) ==
  IF st.raised # None THEN st
  ELSE IF Len(ds) = 0 THEN st
  ELSE IF st.student_index >= Len(regs) THEN st
  ELSE SequentialDates(ctx, regs, Tail(ds), subjects,
         LabLoop(ctx, regs, Head(ds), DictGetOpt(subjects, Head(ds)), 0, st))

\* Variant of DateKeyedDates in which the walk over the labs goes on from
\* where the previous date stopped instead of restarting at the first lab.
RECURSIVE DateKeyedDates_LabsContinue(_, _, _, _, _)
DateKeyedDates_LabsContinue(ctx, ds, subjects, by_date, st) ==
  IF st.raised # None THEN st
  ELSE IF Len(ds) = 0 THEN st
  ELSE DateKeyedDates_LabsContinue(ctx, Tail(ds), subjects, by_date,
         LabLoop(ctx, DictGet(by_date, Head(ds), << >>), Head(ds),
                 DictGetOpt(subjects, Head(ds)), Min(Len(st.schedules), Len(ctx.labs)),
                 [st EXCEPT !.student_index = 0]))

\* date-keyed mode: for date in dates, each over its own list, from index 0
RECURSIVE DateKeyedDates(_, _, _, _, _)
DateKeyedDates(ctx, ds, subjects, by_date, st) ==
  IF st.raised # None THEN st
  ELSE IF Len(ds) = 0 THEN st
  ELSE DateKeyedDates(ctx, Tail(ds), subjects, by_date,
         LabLoop(ctx, DictGet(by_date, Head(ds), << >>), Head(ds),
                 DictGetOpt(subjects, Head(ds)), 0,
                 [st EXCEPT !.student_index = 0]))

\* How the call ends on the state st of its loops: "return schedules", or
\* the exception, which leaves no list.  [raised, schedules], raised None
\* when the call returns.
Returned(st) ==
  [raised |-> st.raised, schedules |-> IF st.raised # None THEN << >> ELSE st.schedules]

\* Variant of allocate_students that falls back to one lab when none is given.
allocate_students_DefaultLab(regs, ds, ls, internal, external, sems, subjects, by_date) ==
  LET ctx == [labs |-> IF Len(ls) = 0 THEN << "Lab 1" >> ELSE ls,
              internal_examiners |-> internal,
              external_examiners |-> external,
              reg_to_sem_batch |-> RegToSemBatch(sems)]
      start == [student_index |-> 0, schedules |-> << >>, raised |-> None]
  IN  Returned(IF DOMAIN by_date # {}
               THEN DateKeyedDates(ctx, ds, subjects, by_date, start)
               ELSE SequentialDates(ctx, regs, ds, subjects, start))

\* the outcome of the call: the returned list of schedules, or the
\* ValidationError raised while a schedule was built
allocate_students(regs, ds, ls, internal, external, sems, subjects, by_date) ==
  LET ctx == [labs |-> ls, internal_examiners |-> internal,
              external_examiners |-> external,
              reg_to_sem_batch |-> RegToSemBatch(sems)]
      start == [student_index |-> 0, schedules |-> << >>, raised |-> None]
  IN  Returned(IF DOMAIN by_date # {}
               THEN DateKeyedDates(ctx, ds, subjects, by_date, start)
               ELSE SequentialDates(ctx, regs, ds, subjects, start))

\* register numbers of the schedules, in schedule and slot order
RECURSIVE get_all_register_numbers(_)
get_all_register_numbers(scheds) ==
  IF Len(scheds) = 0 THEN << >>
  ELSE Head(scheds).slots[1].register_numbers
       \o Head(scheds).slots[2].register_numbers
       \o get_all_register_numbers(Tail(scheds))

\* sum(len(slot.register_numbers) for slot in schedule.slots)
LabCount(schedule) ==
  Len(schedule.slots[1].register_numbers) + Len(schedule.slots[2].register_numbers)

\* counts[date] of count_students_per_date
RECURSIVE DateCount(_, _)
DateCount(scheds, date) ==
  IF Len(scheds) = 0 THEN 0
  ELSE (IF Head(scheds).date = date THEN LabCount(Head(scheds)) ELSE 0)
       + DateCount(Tail(scheds), date)

count_students_per_date(scheds) ==
  [d \in {scheds[i].date : i \in DOMAIN scheds} |-> DateCount(scheds, d)]

(***************************************************************************)
(* Dates.  datetime.strptime(text, '%d-%m-%y') accepts a day 1..31, a      *)
(* month 1..12 and a two-digit year (00..68 is 2000..2068, 69..99 is       *)
(* 1969..1999), and then rejects a day the month does not have.            *)
(***************************************************************************)
FullYear(yy) == IF yy <= 68 THEN 2000 + yy ELSE 1900 + yy
DaysInMonth(year, mm) ==
  LET IsLeap == (year % 4 = 0) /\ ((year % 100 # 0) \/ (year % 400 = 0))
  IN  IF mm = 2 THEN (IF IsLeap THEN 29 ELSE 28)
      ELSE IF mm \in {4, 6, 9, 11} THEN 30 ELSE 31
RECURSIVE DaysBeforeMonth(_, _)
DaysBeforeMonth(year, mm) ==
  IF mm <= 1 THEN 0 ELSE DaysBeforeMonth(year, mm - 1) + DaysInMonth(year, mm - 1)

\* str.strip(): the text without the whitespace around it
Strip(tok) == SubSeq(tok, 1, 3)

\* strptime succeeds on the token; text with whitespace after the year is
\* rejected ("unconverted data remains")
WellFormed(tok) ==
  /\ Len(tok) = 3
  /\ tok[3] \in 0..99
  /\ tok[2] \in 1..12
  /\ tok[1] >= 1
  /\ tok[1] <= DaysInMonth(FullYear(tok[3]), tok[2])

\* parse_date of a well-formed token: the day number of the datetime
\* (its proleptic Gregorian ordinal); on any other token parse_date raises
parse_date(tok) ==
  LET year == FullYear(tok[3])
      y1 == year - 1
  IN  365 * y1 + (y1 \div 4) - (y1 \div 100) + (y1 \div 400)
      + DaysBeforeMonth(year, tok[2]) + tok[1]

\* abs((d2 - d1).days)
date_diff_days(date1, date2) ==
  LET d == parse_date(date2) - parse_date(date1)
  IN  IF d < 0 THEN -d ELSE d

\* Sorting by a key: the list is decorated, each element x as << key, x >>,
\* and sorted on the key alone.  Python's sort is stable, so a pair goes
\* behind every pair whose key is not greater.
RECURSIVE InsertByKey(_, _)
InsertByKey(sorted, p) ==
  IF Len(sorted) = 0 THEN << p >>
  ELSE IF Head(sorted)[1] <= p[1]
       THEN << Head(sorted) >> \o InsertByKey(Tail(sorted), p)
       ELSE << p >> \o sorted

RECURSIVE SortByKey(_)
SortByKey(pairs) ==
  IF Len(pairs) = 0 THEN << >>
  ELSE InsertByKey(SortByKey(SubSeq(pairs, 1, Len(pairs) - 1)), pairs[Len(pairs)])

Undecorate(pairs) == [i \in DOMAIN pairs |-> pairs[i][2]]

\* Variant of SortedByDate that leaves the pool in the order given.
SortedByDate_Unsorted(xs) == xs

\* sorted(available_dates, key=lambda d: parse_date(d)), all tokens well-formed
SortedByDate(xs) ==
  Undecorate(SortByKey([i \in DOMAIN xs |-> << parse_date(xs[i]), xs[i] >>]))

\* parse_dates of app/parsers.py: every token is stripped; a token that is
\* malformed even then is kept, with the key datetime.max (31 December
\* 9999), and so sorts behind every date
DatetimeMax == 365 * 9998 + (9998 \div 4) - (9998 \div 100) + (9998 \div 400) + 365
\* Variant of ParsedKey that gives a malformed token the least key.
ParsedKey_MalformedFirst(tok) == IF WellFormed(tok) THEN parse_date(tok) ELSE 0

ParsedKey(tok) == IF WellFormed(tok) THEN parse_date(tok) ELSE DatetimeMax
parse_dates(strings) ==
  Undecorate(SortByKey([i \in DOMAIN strings |->
                          << ParsedKey(Strip(strings[i])), Strip(strings[i]) >>]))

(***************************************************************************)
(* remove_duplicates of app/parsers.py: one pass over the list with the    *)
(* set seen and the lists unique and duplicates; RemoveStep is the body of *)
(* the loop for one register number.                                       *)
(***************************************************************************)
\* Variant of RemoveStep that never records a number as seen.
RemoveStep_ForgetsSeen(st, reg_no) ==
  [st EXCEPT !.unique = Append(st.unique, reg_no)]

\* Variant of RemoveStep that keeps the latest occurrence of a repeated
\* number in unique instead of the first.
RemoveStep_KeepsLatest(st, reg_no) ==
  IF reg_no \in st.seen
  THEN [st EXCEPT !.duplicates = Append(st.duplicates, reg_no),
                  !.unique = Append(SelectSeq(st.unique, LAMBDA x : x # reg_no), reg_no)]
  ELSE [st EXCEPT !.seen = st.seen \cup {reg_no},
                  !.unique = Append(st.unique, reg_no)]

RemoveStep(st, reg_no) ==
  IF reg_no \in st.seen
  THEN [st EXCEPT !.duplicates = Append(st.duplicates, reg_no)]
  ELSE [st EXCEPT !.seen = st.seen \cup {reg_no},
                  !.unique = Append(st.unique, reg_no)]

\* the passes of the loop made to reach st: each appends to exactly one of
\* unique and duplicates
Passes(st) == Len(st.unique) + Len(st.duplicates)

\* "for reg_no in register_numbers" from the state st on, until the number
\* at position last has had its pass: the passes up to the position halfway
\* first, then the remaining ones on the state they leave
RECURSIVE RemoveLoop(_, _, _)
RemoveLoop(numbers, last, st) ==
  IF Passes(st) >= last THEN st
  ELSE IF Passes(st) + 1 = last THEN RemoveStep(st, numbers[last])
  ELSE RemoveLoop(numbers, last, RemoveLoop(numbers, (Passes(st) + last) \div 2, st))

\* the returned pair (unique, duplicates)
remove_duplicates(numbers) ==
  LET st == RemoveLoop(numbers, Len(numbers),
                       [seen |-> {}, unique |-> << >>, duplicates |-> << >>])
  IN  << st.unique, st.duplicates >>

(***************************************************************************)
(* The request (ScheduleRequest of app/models.py) is a record of its       *)
(* fields; an exam date is [date, subject, register_numbers] with an       *)
(* Optional subject.                                                       *)
(***************************************************************************)
Concat(lists) == Join(<< >>, lists)

\* Semester.get_all_register_numbers
Semester_get_all_register_numbers(semester) ==
  Concat([i \in DOMAIN semester.batches |-> semester.batches[i].register_numbers])

\* ScheduleRequest.get_all_register_numbers
Request_get_all_register_numbers(req) ==
  LET from_dates == Concat([i \in DOMAIN req.exam_dates |->
                              req.exam_dates[i].register_numbers])
  IN  IF Len(req.exam_dates) > 0 /\ Len(from_dates) > 0 THEN from_dates
      ELSE IF Len(req.semesters) > 0
      THEN Concat([i \in DOMAIN req.semesters |->
                     Semester_get_all_register_numbers(req.semesters[i])])
      ELSE req.register_numbers

\* ScheduleRequest.get_dates
get_dates(req) ==
  IF Len(req.exam_dates) > 0
  THEN [i \in DOMAIN req.exam_dates |-> req.exam_dates[i].date]
  ELSE req.dates

(***************************************************************************)
(* CSV text of register numbers, app/parsers.py.  A register number is a   *)
(* sequence of one-character strings; so is the CSV text.                  *)
(***************************************************************************)
UpperLetters == << "A", "B", "C", "D", "E", "F", "G", "H", "I", "J", "K", "L", "M",
                   "N", "O", "P", "Q", "R", "S", "T", "U", "V", "W", "X", "Y", "Z" >>
LowerLetters == << "a", "b", "c", "d", "e", "f", "g", "h", "i", "j", "k", "l", "m",
                   "n", "o", "p", "q", "r", "s", "t", "u", "v", "w", "x", "y", "z" >>
\* str.lower()
Lower(text) ==
  LET LowerChar(c) ==
        IF \E i \in DOMAIN UpperLetters : UpperLetters[i] = c
        THEN LowerLetters[CHOOSE i \in DOMAIN UpperLetters : UpperLetters[i] = c]
        ELSE c
  IN  [i \in DOMAIN text |-> LowerChar(text[i])]

\* The characters of the texts of the model: ASCII letters and digits, the
\* punctuation the parsers look for, and the ASCII whitespace a TLA+ string
\* can hold.  Whitespace are those of them that str.strip() removes and \s
\* matches.
Digits == {"0", "1", "2", "3", "4", "5", "6", "7", "8", "9"}
Whitespace == {" ", "\t", "\r", "\n", "\f"}
UpperSet == {UpperLetters[i] : i \in DOMAIN UpperLetters}
LowerSet == {LowerLetters[i] : i \in DOMAIN LowerLetters}
TextChars ==
  UpperSet \cup LowerSet \cup Digits \cup {",", ":", ".", "-", "/", "*", "_"} \cup Whitespace
\* the text without its longest prefix (suffix) of the given characters
DropLeading(text, drop) ==
  IF \A i \in DOMAIN text : text[i] \in drop THEN << >>
  ELSE SubSeq(text,
              CHOOSE i \in DOMAIN text :
                text[i] \notin drop /\ \A j \in 1..(i - 1) : text[j] \in drop,
              Len(text))
DropTrailing(text, drop) ==
  IF \A i \in DOMAIN text : text[i] \in drop THEN << >>
  ELSE SubSeq(text, 1,
              CHOOSE i \in DOMAIN text :
                text[i] \notin drop /\ \A j \in (i + 1)..Len(text) : text[j] \in drop)
\* str.strip()
StripText(text) == DropTrailing(DropLeading(text, Whitespace), Whitespace)

\* writer.writerow([reg_no]) for each number: a field of letters and digits
\* is written as it is, followed by the line terminator "\r\n"
format_csv_register_numbers(numbers) ==
  Concat([i \in DOMAIN numbers |-> numbers[i] \o << "\r", "\n" >>])

\* the k-th smallest of a set of positions
Nth(positions, k) ==
  CHOOSE i \in positions : Cardinality({j \in positions : j <= i}) = k
\* text.split(sep) for a one-character separator: the parts between the
\* separators, one more than there are separators
Split(text, sep) ==
  LET seps == {i \in DOMAIN text : text[i] = sep}
      cut(k) == IF k = 0 THEN 0
                ELSE IF k > Cardinality(seps) THEN Len(text) + 1
                ELSE Nth(seps, k)
  IN  [k \in 1..(Cardinality(seps) + 1) |-> SubSeq(text, cut(k - 1) + 1, cut(k) - 1)]

\* csv.reader(io.StringIO(csv_content)) on text over TextChars (no quote
\* character).  io.StringIO hands the reader one line per "\n".  In a line
\* the record ends at the first "\r"; only further "\r" may follow it, any
\* other character after it raises csv.Error ("new-line character seen in
\* unquoted field").  A record without characters is the row [], any other
\* is its fields between the commas.
CsvError == [raised |-> "csv.Error"]
RecordEnd(line) ==
  LET returns == {i \in DOMAIN line : line[i] = "\r"}
  IN  IF returns = {} THEN Len(line) + 1
      ELSE CHOOSE i \in returns : \A j \in returns : i <= j
Lines(text) ==
  LET parts == Split(text, "\n")
  IN  IF Len(parts[Len(parts)]) = 0 THEN SubSeq(parts, 1, Len(parts) - 1) ELSE parts
\* the reader raises on one of the lines; otherwise the rows it yields
ReaderRaises(text) ==
  LET LineRaises(line) == \E i \in DOMAIN line : i > RecordEnd(line) /\ line[i] # "\r"
  IN  \E i \in DOMAIN Lines(text) : LineRaises(Lines(text)[i])
ReadRows(text) ==
  LET RowOfLine(line) ==
        LET bare == SubSeq(line, 1, RecordEnd(line) - 1)
        IN  IF Len(bare) = 0 THEN << >> ELSE Split(bare, ",")
  IN  [i \in DOMAIN Lines(text) |-> RowOfLine(Lines(text)[i])]

\* the loop over the rows: the stripped first column of each row, unless it
\* is empty or one of the words taken for a header
RECURSIVE FirstColumns(_)
FirstColumns(rows) ==
  IF Len(rows) = 0 THEN << >>
  ELSE LET row == Head(rows)
           value == StripText(row[1])
           HeaderWords ==
             { << "r", "e", "g", "i", "s", "t", "e", "r", "_", "n", "u", "m", "b", "e", "r" >>,
               << "r", "e", "g", "_", "n", "o" >>,
               << "r", "e", "g", "n", "o" >>,
               << "r", "e", "g", "i", "s", "t", "e", "r", " ", "n", "u", "m", "b", "e", "r" >> }
       IN  (IF Len(row) > 0 /\ Len(value) > 0 /\ Lower(value) \notin HeaderWords
            THEN << value >> ELSE << >>)
           \o FirstColumns(Tail(rows))

\* the list of register numbers, or CsvError when the reader raises
parse_csv_register_numbers(content) ==
  IF Len(content) = 0 \/ Len(StripText(content)) = 0 THEN << >>
  ELSE IF ReaderRaises(content) THEN CsvError
  ELSE FirstColumns(ReadRows(content))

(***************************************************************************)
(* app/validators.py.  An error is [field, message]; a message or warning  *)
(* is its format text with the values filled in.                           *)
(***************************************************************************)
DEFAULT_LABS == << "Lab 1", "Lab 2", "Lab 3", "Lab 4", "Lab 5" >>
validators_STUDENTS_PER_LAB == 25
validators_LABS_PER_DAY == 5
validators_DAILY_CAPACITY == validators_STUDENTS_PER_LAB * validators_LABS_PER_DAY

Text(text, args) == [text |-> text, args |-> args]
Error(field, text, args) == [field |-> field, message |-> Text(text, args)]

\* Variant of calculate_required_dates that adds a day to the quotient.
calculate_required_dates_QuotientPlusOne(count) ==
  IF count <= 0 THEN 0 ELSE (count \div validators_DAILY_CAPACITY) + 1

calculate_required_dates(count) ==
  IF count <= 0 THEN 0 ELSE -((-count) \div validators_DAILY_CAPACITY)

calculate_additional_dates_needed(count, provided_dates) ==
  Max(0, calculate_required_dates(count) - provided_dates)

validate_register_numbers(numbers) ==
  IF Len(numbers) = 0
  THEN Some(Error("register_numbers",
                  "At least one register number is required to generate a schedule", << >>))
  ELSE None

\* the pair (error, labs to use)
validate_labs(ls) == IF Len(ls) = 0 THEN << None, DEFAULT_LABS >> ELSE << None, ls >>

validate_internal_examiners(examiners) == None
validate_external_examiners(examiners) == None

\* Variant of validate_dates that does not check the format of the tokens.
validate_dates_SkipsFormat(ds, count) ==
  IF Len(ds) = 0
  THEN << None, Some(Text("No dates provided. Please add exam dates for scheduling.", << >>)) >>
  ELSE IF calculate_additional_dates_needed(count, Len(ds)) > 0
  THEN << None, Some(Text("Note: {} students may need {} dates. You provided {}.",
                          << count, calculate_required_dates(count), Len(ds) >>)) >>
  ELSE << None, None >>

\* Variant of validate_dates that reports too few dates as an error.
validate_dates_ShortfallIsError(ds, count) ==
  IF Len(ds) = 0
  THEN << None, Some(Text("No dates provided. Please add exam dates for scheduling.", << >>)) >>
  ELSE IF \E i \in DOMAIN ds : ~WellFormed(Strip(ds[i]))
  THEN << Some(Error("dates", "Invalid date format: {}. Expected DD-MM-YY", << >>)), None >>
  ELSE IF calculate_additional_dates_needed(count, Len(ds)) > 0
  THEN << Some(Error("dates", "Note: {} students may need {} dates. You provided {}.",
                     << count, calculate_required_dates(count), Len(ds) >>)), None >>
  ELSE << None, None >>

\* the pair (error, warning)
validate_dates(ds, count) ==
  IF Len(ds) = 0
  THEN << None, Some(Text("No dates provided. Please add exam dates for scheduling.", << >>)) >>
  ELSE IF \E i \in DOMAIN ds : ~WellFormed(Strip(ds[i]))
  THEN LET first == CHOOSE i \in DOMAIN ds :
                      /\ ~WellFormed(Strip(ds[i]))
                      /\ \A j \in 1..(i - 1) : WellFormed(Strip(ds[j]))
       IN  << Some(Error("dates", "Invalid date format: {}. Expected DD-MM-YY",
                         << ds[first] >>)), None >>
  ELSE IF calculate_additional_dates_needed(count, Len(ds)) > 0
  THEN << None, Some(Text("Note: {} students may need {} dates. You provided {}.",
                          << count, calculate_required_dates(count), Len(ds) >>)) >>
  ELSE << None, None >>

\* [errors, warnings, request]: the request comes back with its labs
\* defaulted.  "if error: errors.append(error)" appends the zero or one
\* element of the Optional.
validate_schedule_request(req) ==
  LET reg_error == validate_register_numbers(req.register_numbers)
      labs_result == validate_labs(req.labs)
      internal_error == validate_internal_examiners(req.internal_examiners)
      external_error == validate_external_examiners(req.external_examiners)
      dates_result == IF Len(req.register_numbers) > 0
                      THEN validate_dates(req.dates, Len(req.register_numbers))
                      ELSE << None, None >>
  IN  [errors |-> reg_error \o labs_result[1] \o internal_error
                    \o external_error \o dates_result[1],
       warnings |->
         (IF Len(req.labs) = 0
          THEN << Text("Using default labs: {}", << DEFAULT_LABS >>) >> ELSE << >>)
         \o (IF Len(req.internal_examiners) = 0
             THEN << Text("No internal examiners provided. Schedule will be generated without examiner assignments.", << >>) >>
             ELSE << >>)
         \o (IF Len(req.external_examiners) = 0
             THEN << Text("No external examiners provided. Schedule will be generated without examiner assignments.", << >>) >>
             ELSE << >>)
         \o dates_result[2],
       request |-> IF Len(req.labs) = 0 THEN [req EXCEPT !.labs = labs_result[2]] ELSE req]

(***************************************************************************)
(* select_optimal_dates.  Its outcome is a record: raised tells whether    *)
(* the call ended in an exception; otherwise selected and message are the  *)
(* returned pair.  A message is its format text with the values filled in  *)
(* (the average gap as the pair sum, count of the quotient it prints).     *)
(***************************************************************************)
Raise == [raised |-> TRUE, selected |-> << >>, message |-> [text |-> "ValueError", args |-> << >>]]
Return(selected, text, args) ==
  [raised |-> FALSE, selected |-> selected, message |-> [text |-> text, args |-> args]]

\* Variant of RequiredDays that rounds down.
RequiredDays_Floor(n) == n \div DAILY_CAPACITY

\* math.ceil(student_count / DAILY_CAPACITY)
RequiredDays(n) == -((-n) \div DAILY_CAPACITY)

\* Variant of GreedyWalk that measures the gap from the first selected date.
RECURSIVE GreedyWalk_FromFirst(_, _, _, _)
GreedyWalk_FromFirst(rest, selected, required_days, min_gap) ==
  IF Len(rest) = 0 THEN selected
  ELSE IF Len(selected) >= required_days THEN selected
  ELSE GreedyWalk_FromFirst(Tail(rest),
                            IF date_diff_days(selected[1], Head(rest)) >= min_gap
                            THEN Append(selected, Head(rest))
                            ELSE selected,
                            required_days, min_gap)

\* Variant of GreedyWalk that wants more than min_gap days between two dates.
RECURSIVE GreedyWalk_StrictGap(_, _, _, _)
GreedyWalk_StrictGap(rest, selected, required_days, min_gap) ==
  IF Len(rest) = 0 THEN selected
  ELSE IF Len(selected) >= required_days THEN selected
  ELSE GreedyWalk_StrictGap(Tail(rest),
                            IF date_diff_days(selected[Len(selected)], Head(rest)) > min_gap
                            THEN Append(selected, Head(rest))
                            ELSE selected,
                            required_days, min_gap)

\* for date in sorted_dates[1:]: ... ; rest is what the loop has yet to visit
RECURSIVE GreedyWalk(_, _, _, _)
GreedyWalk(rest, selected, required_days, min_gap) ==
  IF Len(rest) = 0 THEN selected
  ELSE IF Len(selected) >= required_days THEN selected
  ELSE GreedyWalk(Tail(rest),
                  IF date_diff_days(selected[Len(selected)], Head(rest)) >= min_gap
                  THEN Append(selected, Head(rest))
                  ELSE selected,
                  required_days, min_gap)

\* Variant of FirstDates that takes one date fewer.
FirstDates_OneShort(sorted_dates, required_days) ==
  Slice(sorted_dates, 0, Max(required_days - 1, 0))

\* selected = sorted_dates[:required_days]  (a negative bound counts from the end)
FirstDates(sorted_dates, required_days) ==
  IF required_days >= 0
  THEN Slice(sorted_dates, 0, required_days)
  ELSE Slice(sorted_dates, 0, Max(Len(sorted_dates) + required_days, 0))

RECURSIVE SumSeq(_)
SumSeq(xs) == IF Len(xs) = 0 THEN 0 ELSE Head(xs) + SumSeq(Tail(xs))

\* the last return: the selection with its summary message
Summary(selected, n) ==
  LET gaps == [i \in 1..(Len(selected) - 1) |->
                 date_diff_days(selected[i], selected[i + 1])]
  IN  IF Len(gaps) > 0
      THEN Return(selected, "Selected {} dates for {} students (avg gap: {}/{} days)",
                  << Len(selected), n, SumSeq(gaps), Len(gaps) >>)
      ELSE Return(selected, "Selected {} dates for {} students", << Len(selected), n >>)

select_optimal_dates(pool, n, min_gap) ==
  IF Len(pool) = 0 THEN Return(<< >>, "No dates provided", << >>)
  ELSE LET required_days == RequiredDays(n)
       IN  IF required_days = 0 THEN Return(<< >>, "No students to schedule", << >>)
           ELSE IF \E i \in DOMAIN pool : ~WellFormed(pool[i]) THEN Raise
           ELSE LET sorted_dates == SortedByDate(pool)
                IN  IF Len(sorted_dates) < required_days
                    THEN Return(sorted_dates,
                                "Warning: Only {} dates available, need {} for {} students",
                                << Len(sorted_dates), required_days, n >>)
                    ELSE IF required_days = 1
                    THEN Return(<< sorted_dates[1] >>, "Selected 1 date for {} students", << n >>)
                    ELSE IF min_gap <= 1
                    THEN Summary(FirstDates(sorted_dates, required_days), n)
                    ELSE LET walked == GreedyWalk(Tail(sorted_dates), << sorted_dates[1] >>,
                                                  required_days, min_gap)
                         IN  IF Len(walked) < required_days
                             THEN Return(FirstDates(sorted_dates, required_days),
                                         "Selected {} dates (gap constraint relaxed due to limited dates)",
                                         << Len(FirstDates(sorted_dates, required_days)) >>)
                             ELSE Summary(walked, n)

(***************************************************************************)
(* The inputs the model draws.                                             *)
(***************************************************************************)
\* n register numbers without repeats, not in sorted order
RegList(n) == [i \in 1..n |-> n + 1 - i]

LabList(k) ==
  LET LabNames == << "Lab 1", "Lab 2", "Lab 3", "Lab 4", "Lab 5", "Lab 6", "Lab 7", "Lab 8" >>
  IN  SubSeq(LabNames, 1, k)

D1 == << 1, 1, 25 >>
D2 == << 2, 1, 25 >>
RECURSIVE SeqsUpTo(_, _)
\* the sequences over S of length at most k
SeqsUpTo(S, k) ==
  IF k = 0 THEN {<< >>}
  ELSE LET shorter == SeqsUpTo(S, k - 1)
       IN  shorter \cup {Append(q, x) : q \in shorter, x \in S}
InternalPool == << [id |-> "I1", name |-> "Asha"], [id |-> "I2", name |-> "Biju"] >>
ExternalPool == << [id |-> "E1", name |-> "Celin"], [id |-> "E2", name |-> "Dev"],
                   [id |-> "E3", name |-> "Esha"] >>

\* register number 3 is listed in two batches, 200 in no run of the model
Cohorts ==
  << [name |-> << "S", "1" >>,
      batches |-> << [name |-> << "B" >>, register_numbers |-> << 1, 2, 3 >>],
                     [name |-> << "A" >>, register_numbers |-> << 3, 4, 5, 6 >>] >>],
     [name |-> << "S", "2" >>,
      batches |-> << [name |-> << "A" >>, register_numbers |-> << 7, 8, 200 >>] >>] >>

NotRun == [raised |-> FALSE, selected |-> << >>, message |-> [text |-> "", args |-> << >>]]

AllocIdle ==
  /\ register_numbers = << >>
  /\ dates = << >>
  /\ labs = << >>
  /\ internal_examiners = << >>
  /\ external_examiners = << >>
  /\ semesters = << >>
  /\ date_subjects = EmptyDict
  /\ date_register_numbers = EmptyDict
  /\ schedules = << >>
  /\ pc = "idle"

NoPlanning == [required_days |-> None, additional_dates_needed |-> None]

SelIdle ==
  /\ available_dates = << >>
  /\ student_count = 0
  /\ min_gap_days = 1
  /\ selection = NotRun
  /\ planning = NoPlanning
  /\ sel_pc = "idle"

ParseIdle ==
  /\ raw_numbers = << >>
  /\ unique_numbers = << >>
  /\ removed_duplicates = << >>
  /\ date_strings = << >>
  /\ sorted_strings = << >>
  /\ csv_numbers = << >>
  /\ csv_content = << >>
  /\ csv_parsed = << >>
  /\ parse_pc = "idle"

NoResponse == [success |-> FALSE, data |-> None, errors |-> << >>, warnings |-> << >>]

GenIdle ==
  /\ LET EmptyRequest ==
           [register_numbers |-> << >>, semesters |-> << >>, dates |-> << >>,
            exam_dates |-> << >>, labs |-> << >>, internal_examiners |-> << >>,
            external_examiners |-> << >>]
     IN  /\ payload = EmptyRequest
         /\ request = EmptyRequest
         /\ validate_request = EmptyRequest
  /\ response = NoResponse
  /\ allocate_calls = << >>
  /\ validate_response = None
  /\ gen_pc = "idle"

NoAnalysis == [returned |-> FALSE, value |-> None]
NoImageResponse ==
  [success |-> FALSE, error |-> None, semesters |-> << >>, total_students |-> None,
   extracted_data |-> None, raw_response |-> None, message |-> None]

ImageIdle ==
  /\ upload = [api_key |-> FALSE, readable |-> FALSE, content_type |-> None]
  /\ attempts = << >>
  /\ replies = << >>
  /\ model_index = 0
  /\ analysis = NoAnalysis
  /\ image_response = NoImageResponse
  /\ img_pc = "idle"

(***************************************************************************)
(* The allocation engine: Init draws the arguments of one call, Allocate   *)
(* is the call.                                                            *)
(***************************************************************************)
Init ==
  /\ ImageIdle
  /\ SelIdle
  /\ ParseIdle
  /\ GenIdle
  /\ LET DateLists == SeqsUpTo({D1, D2}, MaxDates)
         \* what accompanies the candidates: proctor pools, cohort structure, subjects
         Extras ==
           { [internal |-> << >>, external |-> << >>, semesters |-> << >>, subjects |-> EmptyDict],
             [internal |-> InternalPool, external |-> ExternalPool, semesters |-> << >>,
              subjects |-> (D1 :> "Physics Lab")],
             [internal |-> << >>, external |-> ExternalPool, semesters |-> Cohorts,
              subjects |-> EmptyDict] }
         \* date -> candidates of that date, as generate_schedule builds it from
         \* exam_dates: the first k candidates on D1, the others on D2, and no
         \* entry for a date without candidates
         ByDate(regs, k) ==
           LET first == SubSeq(regs, 1, k)
               rest == SubSeq(regs, k + 1, Len(regs))
           IN  [d \in ({D1} \cap (IF Len(first) > 0 THEN {D1} ELSE {}))
                      \cup ({D2} \cap (IF Len(rest) > 0 THEN {D2} ELSE {}))
                 |-> IF d = D1 THEN first ELSE rest]
         Splits(n) == {0, n \div 2, n}
         \* a proctor pool whose second member has an empty id, for a few
         \* numbers of candidates at the edge of the first lab
         UnnamedProctor ==
           [internal |-> << InternalPool[1], [id |-> "", name |-> "Asha"] >>,
            external |-> << >>, semesters |-> << >>, subjects |-> EmptyDict]
         ExtrasFor(n) ==
           Extras \cup (IF n \in {STUDENTS_PER_LAB, STUDENTS_PER_LAB + 1} THEN {UnnamedProctor}
                        ELSE {})
         \* the first k lab names, and a list whose second lab has the
         \* empty name
         LabLists == {LabList(k) : k \in 0..MaxLabs} \cup {<< "Lab 1", "" >>}
     IN  \E n \in 0..MaxStudents, ls \in LabLists, ds \in DateLists :
         \E x \in ExtrasFor(n) :
           /\ register_numbers = RegList(n)
           /\ labs = ls
           /\ dates = ds
           /\ internal_examiners = x.internal
           /\ external_examiners = x.external
           /\ semesters = x.semesters
           /\ date_subjects = x.subjects
           /\ \/ date_register_numbers = EmptyDict
              \/ \E split \in Splits(n) : date_register_numbers = ByDate(RegList(n), split)
  /\ schedules = << >>
  /\ pc = "ready"

\* the call of allocate_students: it returns its list of schedules, or it
\* raises and leaves none
Allocate ==
  /\ pc = "ready"
  /\ \E outcome \in {allocate_students(register_numbers, dates, labs, internal_examiners,
                                        external_examiners, semesters, date_subjects,
                                        date_register_numbers)} :
       /\ schedules' = outcome.schedules
       /\ pc' = IF outcome.raised = None THEN "done" ELSE "raised"
  /\ UNCHANGED << register_numbers, dates, labs, internal_examiners, external_examiners,
                  semesters, date_subjects, date_register_numbers >>
  /\ UNCHANGED << sel_vars, parse_vars, gen_vars, img_vars >>

Next == Allocate

Spec == Init /\ [][Next]_vars

\* calculate_requirements of app/main.py: required_days and
\* additional_dates_needed of its answer
calculate_requirements(count, available) ==
  [required_days |-> Some(RequiredDays(count)),
   additional_dates_needed |->
     IF available > 0 THEN Some(Max(0, RequiredDays(count) - available)) ELSE None]

(***************************************************************************)
(* The date selector: InitDates draws the arguments of one call; Select is *)
(* a direct call of select_optimal_dates, AutoSelect the call through the  *)
(* entry point auto_select_dates, which sorts the pool with parse_dates    *)
(* first and answers success = False when the selection raises.            *)
(***************************************************************************)
MaxPool == 3
MaxDays == 3
MaxGap == 6

InitDates ==
  /\ ImageIdle
  /\ AllocIdle
  /\ ParseIdle
  /\ GenIdle
  /\ LET PoolTokens == { << 31, 12, 24 >>, << 10, 1, 25 >>, << 11, 1, 25 >>, << 15, 1, 25 >>,
                         << 32, 1, 25 >> }
         Pools == SeqsUpTo(PoolTokens, MaxPool)
     IN  available_dates \in Pools
  /\ LET \* candidate counts at the edges of a day's capacity, and the 200 of the
         \* documented scenario
         StudentCounts == {DAILY_CAPACITY * k + r : k \in 0..MaxDays, r \in {-1, 0, 1, 75}}
     IN  student_count \in StudentCounts
  /\ min_gap_days \in 0..MaxGap
  /\ selection = NotRun
  /\ planning = NoPlanning
  /\ sel_pc = "ready"

Select ==
  /\ sel_pc = "ready"
  /\ selection' = select_optimal_dates(available_dates, student_count, min_gap_days)
  /\ sel_pc' = "returned"
  /\ UNCHANGED << available_dates, student_count, min_gap_days, planning >>
  /\ UNCHANGED << alloc_vars, parse_vars, gen_vars, img_vars >>

AutoSelect ==
  /\ sel_pc = "ready"
  /\ selection' = select_optimal_dates(parse_dates(available_dates), student_count,
                                       min_gap_days)
  /\ planning' = IF selection'.raised THEN NoPlanning
                 ELSE [required_days |-> Some(RequiredDays(student_count)),
                       additional_dates_needed |-> None]
  /\ sel_pc' = "responded"
  /\ UNCHANGED << available_dates, student_count, min_gap_days >>
  /\ UNCHANGED << alloc_vars, parse_vars, gen_vars, img_vars >>

\* the entry point calculate_requirements, asked about the candidate count
\* and the number of dates of the pool
CalculateRequirements ==
  /\ sel_pc = "ready"
  /\ planning' = calculate_requirements(student_count, Len(available_dates))
  /\ sel_pc' = "calculated"
  /\ UNCHANGED << available_dates, student_count, min_gap_days, selection >>
  /\ UNCHANGED << alloc_vars, parse_vars, gen_vars, img_vars >>

NextDates == Select \/ AutoSelect \/ CalculateRequirements

SpecDates == InitDates /\ [][NextDates]_vars

(***************************************************************************)
(* The input normalisers of app/parsers.py: InitParsers draws either a     *)
(* list of register numbers or a list of date tokens or a list of register *)
(* numbers to write as CSV; RemoveDuplicates, ParseDates, FormatCsv and    *)
(* ParseCsv are the calls.                                                 *)
(***************************************************************************)
MaxRaw == 4
MaxTokens == 3

MaxCsv == 3
InitParsers ==
  /\ ImageIdle
  /\ AllocIdle
  /\ SelIdle
  /\ GenIdle
  /\ LET RawNumbers == 1..3
         RawLists == SeqsUpTo(RawNumbers, MaxRaw)
         \* two dates, two malformed tokens, a date and a malformed token followed
         \* by whitespace
         ParserTokens == { << 10, 1, 25 >>, << 31, 12, 24 >>, << 32, 1, 25 >>, << 5, 13, 25 >>,
                           << 11, 1, 25, " " >>, << 40, 1, 25, " " >> }
         TokenLists == SeqsUpTo(ParserTokens, MaxTokens)
         \* register numbers of letters and digits
         CsvNumbers == { << "A", "1" >>, << "1", "b" >>, << "7" >>,
                         << "r", "e", "g", "n", "o" >>, << "R", "e", "g", "N", "o" >>,
                         << "r", "e", "g", "n", "o", "1" >> }
         CsvLists == SeqsUpTo(CsvNumbers, MaxCsv)
     IN  \/ raw_numbers \in RawLists /\ date_strings = << >> /\ csv_numbers = << >>
         \/ raw_numbers = << >> /\ date_strings \in TokenLists /\ csv_numbers = << >>
         \/ raw_numbers = << >> /\ date_strings = << >> /\ csv_numbers \in CsvLists
  /\ unique_numbers = << >>
  /\ removed_duplicates = << >>
  /\ sorted_strings = << >>
  /\ csv_content = << >>
  /\ csv_parsed = << >>
  /\ parse_pc = "ready"

RemoveDuplicates ==
  /\ parse_pc = "ready"
  /\ unique_numbers' = remove_duplicates(raw_numbers)[1]
  /\ removed_duplicates' = remove_duplicates(raw_numbers)[2]
  /\ parse_pc' = "deduplicated"
  /\ UNCHANGED << raw_numbers, date_strings, sorted_strings, csv_numbers, csv_content,
                  csv_parsed >>
  /\ UNCHANGED << alloc_vars, sel_vars, gen_vars, img_vars >>

ParseDates ==
  /\ parse_pc = "ready"
  /\ sorted_strings' = parse_dates(date_strings)
  /\ parse_pc' = "sorted"
  /\ UNCHANGED << raw_numbers, date_strings, unique_numbers, removed_duplicates,
                  csv_numbers, csv_content, csv_parsed >>
  /\ UNCHANGED << alloc_vars, sel_vars, gen_vars, img_vars >>

FormatCsv ==
  /\ parse_pc = "ready"
  /\ csv_content' = format_csv_register_numbers(csv_numbers)
  /\ parse_pc' = "formatted"
  /\ UNCHANGED << raw_numbers, date_strings, unique_numbers, removed_duplicates,
                  sorted_strings, csv_numbers, csv_parsed >>
  /\ UNCHANGED << alloc_vars, sel_vars, gen_vars, img_vars >>

ParseCsv ==
  /\ parse_pc = "formatted"
  /\ csv_parsed' = parse_csv_register_numbers(csv_content)
  /\ parse_pc' = "read"
  /\ UNCHANGED << raw_numbers, date_strings, unique_numbers, removed_duplicates,
                  sorted_strings, csv_numbers, csv_content >>
  /\ UNCHANGED << alloc_vars, sel_vars, gen_vars, img_vars >>

NextParsers == RemoveDuplicates \/ ParseDates \/ FormatCsv \/ ParseCsv

SpecParsers == InitParsers /\ [][NextParsers]_vars

(***************************************************************************)
(* The generate pipeline, generate_schedule of app/main.py.                *)
(***************************************************************************)
DictPut(d, k, v) == [x \in DOMAIN d \cup {k} |-> IF x = k THEN v ELSE d[x]]

\* date_subjects[ed.date] = ed.subject for the exam dates that have a
\* subject: "if ed.subject" is false for None and for the empty string
RECURSIVE DateSubjects(_, _)
DateSubjects(exam_dates, d) ==
  IF Len(exam_dates) = 0 THEN d
  ELSE DateSubjects(Tail(exam_dates),
                    IF Head(exam_dates).subject # None /\ Head(exam_dates).subject[1] # ""
                    THEN DictPut(d, Head(exam_dates).date, Head(exam_dates).subject[1])
                    ELSE d)

\* date_register_numbers[ed.date] = ed.register_numbers where there are any
RECURSIVE DateRegisterNumbers(_, _)
DateRegisterNumbers(exam_dates, d) ==
  IF Len(exam_dates) = 0 THEN d
  ELSE DateRegisterNumbers(Tail(exam_dates),
                           IF Len(Head(exam_dates).register_numbers) > 0
                           THEN DictPut(d, Head(exam_dates).date,
                                        Head(exam_dates).register_numbers)
                           ELSE d)

\* format_schedule_response of app/formatter.py
format_schedule_response(internal, external, scheds) ==
  [examiners |-> [internal |-> internal, external |-> external], schedule |-> scheds]

\* [response, raised, calls, request]: the ApiResponse, the exception when
\* the call raises instead of answering (allocate_students is called outside
\* any try, so its ValidationError leaves the route), the argument lists of
\* the calls of allocate_students, and the request object as the call leaves
\* it: register_numbers and dates are assigned in place, and so are the labs
\* by validate_schedule_request when none were given
generate_schedule(req) ==
  LET deduplicated == remove_duplicates(Request_get_all_register_numbers(req))
      removed == deduplicated[2]
      duplicate_warning ==
        IF Len(removed) > 0
        THEN << Text("Duplicate register numbers removed: {}{}",
                     << Slice(removed, 0, 10), Max(0, Len(removed) - 10) >>) >>
        ELSE << >>
      sorted == parse_dates(get_dates(req))
      subjects == DateSubjects(req.exam_dates, EmptyDict)
      by_date == DateRegisterNumbers(req.exam_dates, EmptyDict)
      validation == validate_schedule_request(
                      [req EXCEPT !.register_numbers = deduplicated[1], !.dates = sorted])
      validated == validation.request
      warnings == duplicate_warning \o validation.warnings
  IN  IF Len(validation.errors) > 0
      THEN [response |-> [success |-> FALSE, data |-> None,
                          errors |-> validation.errors, warnings |-> warnings],
            raised |-> None, calls |-> << >>, request |-> validated]
      ELSE LET args == [register_numbers |-> validated.register_numbers,
                        dates |-> sorted, labs |-> validated.labs,
                        internal_examiners |-> validated.internal_examiners,
                        external_examiners |-> validated.external_examiners,
                        semesters |-> validated.semesters,
                        date_subjects |-> subjects,
                        date_register_numbers |-> by_date]
               outcome == allocate_students(args.register_numbers, args.dates, args.labs,
                                            args.internal_examiners, args.external_examiners,
                                            args.semesters, args.date_subjects,
                                            args.date_register_numbers)
           IN  IF outcome.raised # None
               THEN [response |-> NoResponse, raised |-> outcome.raised,
                     calls |-> << args >>, request |-> validated]
               ELSE [response |-> [success |-> TRUE,
                                   data |-> Some(format_schedule_response(
                                                   validated.internal_examiners,
                                                   validated.external_examiners,
                                                   outcome.schedules)),
                                   errors |-> << >>, warnings |-> warnings],
                     raised |-> None, calls |-> << args >>, request |-> validated]

\* validate_schedule of app/main.py: the request is validated as it came,
\* with only its register numbers replaced by the deduplicated ones.
\* [response, request]: the answer and the request object as the call
\* leaves it (register_numbers assigned in place, labs defaulted)
validate_schedule(req) ==
  LET deduplicated == remove_duplicates(Request_get_all_register_numbers(req))
      removed == deduplicated[2]
      duplicate_warning ==
        IF Len(removed) > 0
        THEN << Text("Duplicate register numbers found: {}{}",
                     << Slice(removed, 0, 10), Max(0, Len(removed) - 10) >>) >>
        ELSE << >>
      validation_result == validate_schedule_request(
                             [req EXCEPT !.register_numbers = deduplicated[1]])
      validated == validation_result.request
  IN  [response |->
         [success |-> Len(validation_result.errors) = 0,
          errors |-> validation_result.errors,
          warnings |-> duplicate_warning \o validation_result.warnings,
          summary |-> [total_students |-> Len(deduplicated[1]),
                       duplicates_found |-> Len(removed),
                       dates_provided |-> Len(validated.dates),
                       labs_provided |-> Len(validated.labs),
                       internal_examiners |-> Len(validated.internal_examiners),
                       external_examiners |-> Len(validated.external_examiners),
                       semesters |-> Len(validated.semesters)]],
       request |-> validated]

MaxRequestDates == 2

BadDate == << 32, 1, 25 >>
Requests ==
  LET D2Padded == << 2, 1, 25, " " >>
      \* no candidate, one, a repeated one, three with a repeat, one more than a
      \* day of five labs holds
      RequestNumbers == { << >>, << 7 >>, << 7, 7 >>, << 9, 7, 9 >>, RegList(DAILY_CAPACITY + 1) }
      RequestSemesters ==
        { << >>, Cohorts, << [name |-> << "S", "3" >>, batches |-> << >>] >> }
      RequestDates == SeqsUpTo({D1, D2Padded, BadDate}, MaxRequestDates)
      \* labs is a List[str] of any strings: none, two names, a list whose
      \* second name is empty, and the one empty name
      RequestExamDates ==
        { << >>,
          << [date |-> D2, subject |-> None, register_numbers |-> << >>],
             [date |-> D1, subject |-> Some("Physics Lab"), register_numbers |-> << >>] >>,
          << [date |-> D1, subject |-> Some("Physics Lab"), register_numbers |-> << 1, 2, 2 >>],
             [date |-> D2, subject |-> None, register_numbers |-> << 3 >>] >>,
          << [date |-> BadDate, subject |-> None, register_numbers |-> << 4 >>] >>,
          << [date |-> D1, subject |-> Some(""), register_numbers |-> << 5 >>] >> }
  IN  [register_numbers : RequestNumbers, semesters : RequestSemesters,
       dates : RequestDates, exam_dates : RequestExamDates,
       labs : {<< >>, LabList(2), << "Lab 1", "" >>, << "" >>},
       internal_examiners : {<< >>, InternalPool},
       external_examiners : {<< >>, ExternalPool}]

InitGenerate ==
  /\ ImageIdle
  /\ AllocIdle
  /\ SelIdle
  /\ ParseIdle
  /\ payload \in Requests
  /\ request = payload
  /\ validate_request = payload
  /\ response = NoResponse
  /\ allocate_calls = << >>
  /\ validate_response = None
  /\ gen_pc = "ready"

Generate ==
  /\ gen_pc = "ready"
  /\ response' = generate_schedule(request).response
  /\ allocate_calls' = generate_schedule(request).calls
  /\ request' = generate_schedule(request).request
  /\ gen_pc' = IF generate_schedule(request).raised = None THEN "responded" ELSE "raised"
  /\ UNCHANGED << payload, validate_request, validate_response >>
  /\ UNCHANGED << alloc_vars, sel_vars, parse_vars, img_vars >>

\* the entry point validate_schedule, called with its own object
Validate ==
  /\ gen_pc \in {"ready", "responded", "raised"}
  /\ validate_response = None
  /\ validate_response' = Some(validate_schedule(validate_request).response)
  /\ validate_request' = validate_schedule(validate_request).request
  /\ UNCHANGED << payload, request, response, allocate_calls, gen_pc >>
  /\ UNCHANGED << alloc_vars, sel_vars, parse_vars, img_vars >>

NextGenerate == Generate \/ Validate

SpecGenerate == InitGenerate /\ [][NextGenerate]_vars

(***************************************************************************)
(* Image analysis: analyze_image of app/main.py and the loop over the      *)
(* backend models of analyze_image_with_groq (app/file_parser.py).  The    *)
(* service is the environment: asked, it gives one of Replies.  A reply is *)
(* an HTTP response (status, whether its text mentions "model", whether    *)
(* its body has choices[0].message.content, and that content) or an        *)
(* exception of the client (a timeout, a connection error).  The content   *)
(* is a JSON value: a string (its characters, over TextChars), null or an  *)
(* object (its keys).                                                      *)
(***************************************************************************)
models_to_try ==
  << "meta-llama/llama-4-maverick-17b-128e-instruct", "openai/gpt-oss-120b",
     "llama-3.3-70b-versatile", "llama-4-scout-17b-16e-instruct",
     "llama-3.2-11b-vision-preview", "llama-3.2-90b-vision-preview" >>

\* str.upper(): each lower-case letter by its capital, as a sequence
UpperChar(c) ==
  IF c \in LowerSet
  THEN UpperLetters[CHOOSE i \in DOMAIN LowerLetters : LowerLetters[i] = c]
  ELSE c
Upper(text) == << >> \o [i \in DOMAIN text |-> UpperChar(text[i])]
\* text.startswith(prefix)
StartsWith(text, prefix) ==
  Len(text) >= Len(prefix) /\ SubSeq(text, 1, Len(prefix)) = prefix
\* text.split(':', 1) of a text with a colon: the parts around the first one
FirstColon(text) ==
  CHOOSE i \in DOMAIN text : text[i] = ":" /\ \A j \in 1..(i - 1) : text[j] # ":"
AfterColon(text) == SubSeq(text, FirstColon(text) + 1, Len(text))
\* str(n) of a natural number
RECURSIVE Decimal(_)
Decimal(n) ==
  LET DigitChars == << "0", "1", "2", "3", "4", "5", "6", "7", "8", "9" >>
  IN  IF n < 10 THEN << DigitChars[n + 1] >>
      ELSE Decimal(n \div 10) \o << DigitChars[(n % 10) + 1] >>

DigitsFrom(text, i, n) == \A j \in i..(i + n - 1) : j \in DOMAIN text /\ text[j] \in Digits

\* re.search(r'\d{1,2}[-/]\d{1,2}[-/]\d{2,4}', text).  A shape is the number
\* of digits each of the three groups takes; the first two are fixed by the
\* text, the last group is greedy.  The search gives the match at the
\* leftmost position that has one, None when no position has.
DateLengthAt(text, i) ==
  LET DateShapes == {<< a, b, c >> : a \in 1..2, b \in 1..2, c \in 2..4}
      DateSepAt(j) == j \in DOMAIN text /\ text[j] \in {"-", "/"}
      DateShapeAt(shape) ==
        /\ DigitsFrom(text, i, shape[1])
        /\ DateSepAt(i + shape[1])
        /\ DigitsFrom(text, i + shape[1] + 1, shape[2])
        /\ DateSepAt(i + shape[1] + shape[2] + 1)
        /\ DigitsFrom(text, i + shape[1] + shape[2] + 2, shape[3])
      fits == {shape \in DateShapes : DateShapeAt(shape)}
      best == CHOOSE shape \in fits : \A other \in fits : other[3] <= shape[3]
  IN  IF fits = {} THEN 0 ELSE best[1] + best[2] + best[3] + 2
DateSearch(text) ==
  LET starts == {i \in DOMAIN text : DateLengthAt(text, i) > 0}
      first == CHOOSE i \in starts : \A j \in starts : i <= j
  IN  IF starts = {} THEN None
      ELSE Some(SubSeq(text, first, first + DateLengthAt(text, first) - 1))

\* the pattern [A-Z]{2,4}\d{2}[A-Z]{2,3}\d{3} at position i: the number of
\* characters it takes there, 0 when it does not match there
RegLengthAt(text, i) ==
  LET RegShapes == {<< a, b >> : a \in 2..4, b \in 2..3}
      UppersFrom(j, n) == \A k \in j..(j + n - 1) : k \in DOMAIN text /\ text[k] \in UpperSet
      RegShapeAt(shape) ==
        /\ UppersFrom(i, shape[1])
        /\ DigitsFrom(text, i + shape[1], 2)
        /\ UppersFrom(i + shape[1] + 2, shape[2])
        /\ DigitsFrom(text, i + shape[1] + shape[2] + 2, 3)
      fits == {shape \in RegShapes : RegShapeAt(shape)}
      best == CHOOSE shape \in fits : TRUE
  IN  IF fits = {} THEN 0 ELSE best[1] + best[2] + 5
\* re.search of the pattern
RegSearch(text) ==
  LET starts == {i \in DOMAIN text : RegLengthAt(text, i) > 0}
      first == CHOOSE i \in starts : \A j \in starts : i <= j
  IN  IF starts = {} THEN None
      ELSE Some(SubSeq(text, first, first + RegLengthAt(text, first) - 1))
\* the pattern between two \b; \b is between a word character (letter,
\* digit, underscore) and none
BoundedRegLengthAt(text, i) ==
  LET WordChars == UpperSet \cup LowerSet \cup Digits \cup {"_"}
      WordAt(j) == j \in DOMAIN text /\ text[j] \in WordChars
  IN  IF RegLengthAt(text, i) > 0 /\ ~WordAt(i - 1) /\ ~WordAt(i + RegLengthAt(text, i))
      THEN RegLengthAt(text, i) ELSE 0
\* re.findall of the pattern between two \b: the matches from left to
\* right.  A match starts after a character that is no word character and
\* consists of word characters, so no two matches overlap.
RegFindAll(text) ==
  LET starts == {i \in DOMAIN text : BoundedRegLengthAt(text, i) > 0}
  IN  [k \in 1..Cardinality(starts) |->
         SubSeq(text, Nth(starts, k),
                Nth(starts, k) + BoundedRegLengthAt(text, Nth(starts, k)) - 1)]

\* "if num not in seen_numbers: append, add" for each of the numbers found,
\* in their order: those that are not among the numbers yet are appended,
\* each where it is found first
AddNumbers(numbers, found) ==
  LET fresh == {i \in DOMAIN found :
                  /\ \A j \in DOMAIN numbers : numbers[j] # found[i]
                  /\ \A j \in 1..(i - 1) : found[j] # found[i]}
  IN  numbers \o [k \in 1..Cardinality(fresh) |-> found[Nth(fresh, k)]]

\* the entry of an examiner line: "ID: Name", or a numbered id
Examiner(cleaned, prefix, count) ==
  IF \E i \in DOMAIN cleaned : cleaned[i] = ":"
  THEN [id |-> StripText(SubSeq(cleaned, 1, FirstColon(cleaned) - 1)),
        name |-> StripText(AfterColon(cleaned))]
  ELSE [id |-> prefix \o Decimal(count + 1), name |-> cleaned]

\* the branch "elif current_section:" for a line that is no header
SectionLine(data, section, line) ==
  LET \* re.sub(r'^[\d\.\-\*\s]+', '', line).strip()
      BulletChars == Digits \cup {".", "-", "*"} \cup Whitespace
      cleaned == StripText(DropLeading(line, BulletChars))
      \* text.replace('/', '-')
      Dashed(text) == << >> \o [i \in DOMAIN text |-> IF text[i] = "/" THEN "-" ELSE text[i]]
      \* "if num not in seen_numbers: append, add"
      AddNumber(numbers, num) ==
        IF \E i \in DOMAIN numbers : numbers[i] = num THEN numbers ELSE Append(numbers, num)
  IN  IF Len(cleaned) = 0 THEN data
      ELSE IF section = "dates"
      THEN [data EXCEPT !.dates =
              Append(@, IF DateSearch(cleaned) # None THEN Dashed(DateSearch(cleaned)[1])
                        ELSE cleaned)]
      ELSE IF section = "labs" THEN [data EXCEPT !.labs = Append(@, cleaned)]
      ELSE IF section = "internal_examiners"
      THEN [data EXCEPT !.internal_examiners =
              Append(@, Examiner(cleaned, << "I", "N", "T" >>, Len(@)))]
      ELSE IF section = "external_examiners"
      THEN [data EXCEPT !.external_examiners =
              Append(@, Examiner(cleaned, << "E", "X", "T" >>, Len(@)))]
      ELSE IF section = "subjects" THEN [data EXCEPT !.subjects = Append(@, cleaned)]
      ELSE IF section = "register_numbers"
      THEN IF RegSearch(Upper(cleaned)) # None
           THEN [data EXCEPT !.register_numbers = AddNumber(@, RegSearch(Upper(cleaned))[1])]
           ELSE data
      ELSE [data EXCEPT !.raw_text = @ \o cleaned \o << "\n" >>]

\* one iteration of "for line in lines" on extracted_data and current_section:
\* the first of the branches whose condition holds (no header word begins
\* with another, so at most one header condition holds)
ParseLine(scan, raw) ==
  LET line == StripText(raw)
      upper == Upper(line)
      val == StripText(AfterColon(line))
      data == scan.data
      field(d) == [data |-> d, section |-> None]
      enter(s) == [data |-> data, section |-> Some(s)]
      \* the header words, compared with line.upper()
      EXAM_NAME_HEADER ==
        << "E", "X", "A", "M", "_", "N", "A", "M", "E", ":" >>
      DEPARTMENT_HEADER ==
        << "D", "E", "P", "A", "R", "T", "M", "E", "N", "T", ":" >>
      SEMESTER_HEADER ==
        << "S", "E", "M", "E", "S", "T", "E", "R", ":" >>
      BATCH_HEADER ==
        << "B", "A", "T", "C", "H", ":" >>
      ACADEMIC_YEAR_HEADER ==
        << "A", "C", "A", "D", "E", "M", "I", "C", "_", "Y", "E", "A",
        "R", ":" >>
      DATES_HEADER ==
        << "D", "A", "T", "E", "S", ":" >>
      LABS_HEADER ==
        << "L", "A", "B", "S", ":" >>
      INTERNAL_EXAMINERS_HEADER ==
        << "I", "N", "T", "E", "R", "N", "A", "L", "_", "E", "X", "A",
        "M", "I", "N", "E", "R", "S", ":" >>
      EXTERNAL_EXAMINERS_HEADER ==
        << "E", "X", "T", "E", "R", "N", "A", "L", "_", "E", "X", "A",
        "M", "I", "N", "E", "R", "S", ":" >>
      SUBJECTS_HEADER ==
        << "S", "U", "B", "J", "E", "C", "T", "S", ":" >>
      REGISTER_NUMBERS_HEADER ==
        << "R", "E", "G", "I", "S", "T", "E", "R", "_", "N", "U", "M",
        "B", "E", "R", "S", ":" >>
      RAW_TEXT_HEADER ==
        << "R", "A", "W", "_", "T", "E", "X", "T", ":" >>
  IN  CASE Len(line) = 0 -> scan
        [] StartsWith(upper, EXAM_NAME_HEADER) -> field([data EXCEPT !.exam_name = val])
        [] StartsWith(upper, DEPARTMENT_HEADER) -> field([data EXCEPT !.department = val])
        [] StartsWith(upper, SEMESTER_HEADER) ->
             field(IF Len(val) = 0 THEN data
                   ELSE [data EXCEPT !.semester =
                           IF StartsWith(Upper(val), << "S" >>) THEN Upper(val)
                           ELSE << "S" >> \o val])
        [] StartsWith(upper, BATCH_HEADER) ->
             field(IF Len(val) = 0 THEN data
                   ELSE [data EXCEPT !.batch = << UpperChar(val[1]) >>])
        [] StartsWith(upper, ACADEMIC_YEAR_HEADER) -> field([data EXCEPT !.academic_year = val])
        [] StartsWith(upper, DATES_HEADER) -> enter("dates")
        [] StartsWith(upper, LABS_HEADER) -> enter("labs")
        [] StartsWith(upper, INTERNAL_EXAMINERS_HEADER) -> enter("internal_examiners")
        [] StartsWith(upper, EXTERNAL_EXAMINERS_HEADER) -> enter("external_examiners")
        [] StartsWith(upper, SUBJECTS_HEADER) -> enter("subjects")
        [] StartsWith(upper, REGISTER_NUMBERS_HEADER) -> enter("register_numbers")
        [] StartsWith(upper, RAW_TEXT_HEADER) -> enter("raw_text")
        [] OTHER ->
             IF scan.section # None
             THEN [data |-> SectionLine(data, scan.section[1], line), section |-> scan.section]
             ELSE scan
\* current_section is None or the name of a section
SectionOk(scan) ==
  \/ scan.section = None
  \/ scan.section[1] \in {"dates", "labs", "internal_examiners", "external_examiners",
                           "subjects", "register_numbers", "raw_text"}
\* "for line in lines".  The state a line leaves is evaluated before the
\* next line is read, which keeps the evaluation from nesting once per line.
RECURSIVE ParseLines(_, _)
ParseLines(scan, lines) ==
  IF Len(lines) = 0 \/ ~SectionOk(scan) THEN scan
  ELSE ParseLines(ParseLine(scan, Head(lines)), Tail(lines))

\* parse_groq_response: the header lines and sections of the text, then
\* every register number found anywhere in it, in one semester with one
\* batch when there are any
parse_groq_response(text) ==
  LET \* extracted_data as initialised
      InitialData ==
        [exam_name |-> << >>, department |-> << >>, semester |-> << "S", "1" >>,
         batch |-> << "A" >>, academic_year |-> << >>, dates |-> << >>, labs |-> << >>,
         internal_examiners |-> << >>, external_examiners |-> << >>, subjects |-> << >>,
         register_numbers |-> << >>, raw_text |-> << >>]
      scanned == ParseLines([data |-> InitialData, section |-> None],
                            Split(StripText(text), "\n")).data
      numbers == AddNumbers(scanned.register_numbers, RegFindAll(Upper(text)))
      data == [scanned EXCEPT !.register_numbers = numbers]
  IN  [semesters |-> IF Len(numbers) > 0
                     THEN << [name |-> data.semester,
                              batches |-> << [name |-> data.batch,
                                              register_numbers |-> numbers] >>] >>
                     ELSE << >>,
       register_numbers |-> numbers,
       extracted_data |-> data]

\* The contents the service answers with: a sheet with headers and
\* sections, register numbers in running text, a text without any, the
\* empty string, null, the objects {} and {"a": ...}.
\* "Exam_Name: Lab Test\nDEPARTMENT:\nsemester: 3\nBATCH: b\nDATES:\n1. on
\* 10/01/25\n12-1-2025\nLABS:\n- Lab 1\nINTERNAL_EXAMINERS:\nE1:
\* Ann\nBob\nREGISTER_NUMBERS:\n1. tve20cs001\nTVE20CS002
\* x\nTVE20CS001\nXTVEC20CS003\nRAW_TEXT:\nsee ABC21EC123, _ABC21EC124\n"
SheetText ==
  << "E", "x", "a", "m", "_", "N", "a", "m", "e", ":", " ", "L", "a",
     "b", " ", "T", "e", "s", "t", "\n", "D", "E", "P", "A", "R", "T",
     "M", "E", "N", "T", ":", "\n", "s", "e", "m", "e", "s", "t", "e",
     "r", ":", " ", "3", "\n", "B", "A", "T", "C", "H", ":", " ", "b",
     "\n", "D", "A", "T", "E", "S", ":", "\n", "1", ".", " ", "o", "n",
     " ", "1", "0", "/", "0", "1", "/", "2", "5", "\n", "1", "2", "-",
     "1", "-", "2", "0", "2", "5", "\n", "L", "A", "B", "S", ":", "\n",
     "-", " ", "L", "a", "b", " ", "1", "\n", "I", "N", "T", "E", "R",
     "N", "A", "L", "_", "E", "X", "A", "M", "I", "N", "E", "R", "S",
     ":", "\n", "E", "1", ":", " ", "A", "n", "n", "\n", "B", "o", "b",
     "\n", "R", "E", "G", "I", "S", "T", "E", "R", "_", "N", "U", "M",
     "B", "E", "R", "S", ":", "\n", "1", ".", " ", "t", "v", "e", "2",
     "0", "c", "s", "0", "0", "1", "\n", "T", "V", "E", "2", "0", "C",
     "S", "0", "0", "2", " ", "x", "\n", "T", "V", "E", "2", "0", "C",
     "S", "0", "0", "1", "\n", "X", "T", "V", "E", "C", "2", "0", "C",
     "S", "0", "0", "3", "\n", "R", "A", "W", "_", "T", "E", "X", "T",
     ":", "\n", "s", "e", "e", " ", "A", "B", "C", "2", "1", "E", "C",
     "1", "2", "3", ",", " ", "_", "A", "B", "C", "2", "1", "E", "C",
     "1", "2", "4", "\n" >>
\* "no data"
PlainText ==
  << "n", "o", " ", "d", "a", "t", "a" >>
Content(kind, items) == [kind |-> kind, items |-> items]
Reply(kind, status, mentions_model, body_ok, content) ==
  [kind |-> kind, status |-> status, mentions_model |-> mentions_model,
   body_ok |-> body_ok, content |-> content]
Replies ==
  LET \* "TVE20CS002 TVE20CS001\rTVE20CS002"
      LooseText ==
        << "T", "V", "E", "2", "0", "C", "S", "0", "0", "2", " ", "T", "V",
           "E", "2", "0", "C", "S", "0", "0", "1", "\r", "T", "V", "E", "2",
           "0", "C", "S", "0", "0", "2" >>
      Contents ==
        { Content("str", SheetText), Content("str", LooseText), Content("str", PlainText),
          Content("str", << >>), Content("null", << >>), Content("object", << >>),
          Content("object", << "a" >>) }
  IN  { Reply("response", 200, FALSE, TRUE, c) : c \in Contents }
      \cup { Reply("response", 200, FALSE, FALSE, Content("null", << >>)),
             Reply("response", 400, TRUE, FALSE, Content("null", << >>)),
             Reply("response", 400, FALSE, FALSE, Content("null", << >>)),
             Reply("response", 500, FALSE, FALSE, Content("null", << >>)),
             Reply("exception", 0, FALSE, FALSE, Content("null", << >>)) }

\* data["choices"][0]["message"]["content"] as a Python value: null is None
ContentValue(content) == IF content.kind = "null" THEN None ELSE Some(content)

\* AfterReply that skips the model after an unsupported one
AfterReply_SkipsOnUnsupported(index, reply) ==
  LET next == [returned |-> index >= Len(models_to_try), value |-> None, index |-> index + 1]
      skip == [returned |-> index + 1 >= Len(models_to_try), value |-> None, index |-> index + 2]
  IN  IF reply.kind = "exception" THEN next
      ELSE IF reply.status = 200
      THEN IF reply.body_ok
           THEN [returned |-> TRUE, value |-> ContentValue(reply.content), index |-> index]
           ELSE next
      ELSE IF reply.status = 400 /\ reply.mentions_model THEN skip
      ELSE next

\* AfterReply that hands back the last error when every model failed
AfterReply_ReportsLastError(index, reply) ==
  LET last == index >= Len(models_to_try)
      next == [returned |-> last,
               value |-> IF last THEN Some(Content("str", PlainText)) ELSE None,
               index |-> index + 1]
  IN  IF reply.kind = "exception" THEN next
      ELSE IF reply.status = 200
      THEN IF reply.body_ok
           THEN [returned |-> TRUE, value |-> ContentValue(reply.content), index |-> index]
           ELSE next
      ELSE next

\* the iteration of "for model in models_to_try" for the model at position
\* index on the reply got, together with the "return None" behind the loop
\* when that was the last model: whether the function returns, what, and
\* the next position
AfterReply(index, reply) ==
  LET next == [returned |-> index >= Len(models_to_try), value |-> None, index |-> index + 1]
  IN  IF reply.kind = "exception" THEN next
      ELSE IF reply.status = 200
      THEN IF reply.body_ok
           THEN [returned |-> TRUE, value |-> ContentValue(reply.content), index |-> index]
           ELSE next
      ELSE IF reply.status = 400 /\ reply.mentions_model THEN next
      ELSE next

\* the answers of analyze_image; a key the answer does not have is None
ImageFailure(error) ==
  [success |-> FALSE, error |-> Some(error), semesters |-> << >>, total_students |-> None,
   extracted_data |-> None, raw_response |-> None, message |-> None]

AnalysisFailedText ==
  "Failed to analyze image with Groq AI. Please try again or use a different image."
ProcessingErrorText == "Error processing image: {}"

\* the answer of analyze_image to what analyze_image_with_groq returned: a
\* falsy value is an analysis failure; a value that is no string makes
\* parse_groq_response raise at response.strip(), which the handler reports
ImageAnswer(value) ==
  LET \* "if not response_text": None, the empty string and the empty object
      Falsy == value = None \/ Len(value[1].items) = 0
      ExtractedText == "Extracted {} register numbers and additional exam data using AI"
      Success(parsed) ==
        [success |-> TRUE, error |-> None, semesters |-> parsed.semesters,
         total_students |-> Some(Len(parsed.register_numbers)),
         extracted_data |-> Some(parsed.extracted_data),
         raw_response |-> Some(value[1].items),
         message |-> Some(Text(ExtractedText, << Len(parsed.register_numbers) >>))]
  IN  IF Falsy THEN ImageFailure(AnalysisFailedText)
      ELSE IF value[1].kind # "str" THEN ImageFailure(ProcessingErrorText)
      ELSE \* parsed = parse_groq_response(response_text), evaluated once
           CHOOSE answer \in {Success(parsed) :
                                parsed \in {parse_groq_response(value[1].items)}} : TRUE

InitImage ==
  /\ AllocIdle
  /\ SelIdle
  /\ ParseIdle
  /\ GenIdle
  /\ upload \in [api_key : BOOLEAN, readable : BOOLEAN,
                  content_type : {None, Some(""), Some("image/jpeg"), Some("image/gif")}]
  /\ attempts = << >>
  /\ replies = << >>
  /\ model_index = 0
  /\ analysis = NoAnalysis
  /\ image_response = NoImageResponse
  /\ img_pc = "ready"

\* analyze_image up to "await file.read()": the check of the API key
ReceiveUpload ==
  /\ img_pc = "ready"
  /\ IF ~upload.api_key
     THEN /\ image_response' = ImageFailure(
                 "Groq API key not configured on server. Please contact administrator.")
          /\ img_pc' = "responded"
     ELSE /\ img_pc' = "reading"
          /\ UNCHANGED image_response
  /\ UNCHANGED << upload, attempts, replies, model_index, analysis >>
  /\ UNCHANGED << alloc_vars, sel_vars, parse_vars, gen_vars >>

\* analyze_image from the completion of file.read() to the call of
\* analyze_image_with_groq: a failed read is caught by the handler, then the
\* MIME type is checked
ReadUpload ==
  /\ img_pc = "reading"
  /\ LET mime_type == IF upload.content_type = None \/ upload.content_type[1] = ""
                      THEN "image/png"
                      ELSE upload.content_type[1]
         refusal == IF ~upload.readable THEN Some(ProcessingErrorText)
                    ELSE IF mime_type \notin {"image/png", "image/jpeg", "image/jpg"}
                    THEN Some("Invalid image format. Supported formats: PNG, JPG, JPEG. Got: {}")
                    ELSE None
     IN  IF refusal # None
         THEN /\ image_response' = ImageFailure(refusal[1])
              /\ img_pc' = "responded"
              /\ UNCHANGED model_index
         ELSE /\ img_pc' = "calling"
              /\ model_index' = 1
              /\ UNCHANGED image_response
  /\ UNCHANGED << upload, attempts, replies, analysis >>
  /\ UNCHANGED << alloc_vars, sel_vars, parse_vars, gen_vars >>

\* an iteration of the loop of analyze_image_with_groq up to
\* "await client.post(...)": the request for the model is sent
Post ==
  /\ img_pc = "calling"
  /\ attempts' = Append(attempts, models_to_try[model_index])
  /\ img_pc' = "awaiting"
  /\ UNCHANGED << upload, replies, model_index, analysis, image_response >>
  /\ UNCHANGED << alloc_vars, sel_vars, parse_vars, gen_vars >>

\* the post completes, with a response or with an exception; the block
\* "async with httpx.AsyncClient" is left, which awaits the client's close
Receive ==
  /\ img_pc = "awaiting"
  /\ \E reply \in Replies : replies' = Append(replies, reply)
  /\ img_pc' = "closing"
  /\ UNCHANGED << upload, attempts, model_index, analysis, image_response >>
  /\ UNCHANGED << alloc_vars, sel_vars, parse_vars, gen_vars >>

\* the client is closed: the iteration ends with a return or goes on to the
\* next model
Close ==
  /\ img_pc = "closing"
  /\ LET out == AfterReply(model_index, replies[Len(replies)])
     IN  /\ model_index' = out.index
         /\ analysis' = [returned |-> out.returned, value |-> out.value]
         /\ img_pc' = IF out.returned THEN "returned" ELSE "calling"
  /\ UNCHANGED << upload, attempts, replies, image_response >>
  /\ UNCHANGED << alloc_vars, sel_vars, parse_vars, gen_vars >>

\* analyze_image from the return of analyze_image_with_groq on
Respond ==
  /\ img_pc = "returned"
  /\ image_response' = ImageAnswer(analysis.value)
  /\ img_pc' = "responded"
  /\ UNCHANGED << upload, attempts, replies, model_index, analysis >>
  /\ UNCHANGED << alloc_vars, sel_vars, parse_vars, gen_vars >>

\* The call is cancelled while it waits at one of its awaits (the client
\* went away, the server shuts down).  asyncio.CancelledError is no
\* Exception: neither "except Exception" catches it, the handler ends
\* without an answer.
Cancel ==
  /\ img_pc \in {"reading", "awaiting", "closing"}
  /\ img_pc' = "cancelled"
  /\ UNCHANGED << upload, attempts, replies, model_index, analysis, image_response >>
  /\ UNCHANGED << alloc_vars, sel_vars, parse_vars, gen_vars >>

NextImage == ReceiveUpload \/ ReadUpload \/ Post \/ Receive \/ Close \/ Respond \/ Cancel

SpecImage == InitImage /\ [][NextImage]_vars

(***************************************************************************)
(* Properties of the allocation engine (specification Spec).               *)
(***************************************************************************)
Range(q) == {q[i] : i \in DOMAIN q}
IsPrefix(a, b) == Len(a) <= Len(b) /\ a = SubSeq(b, 1, Len(a))
\* sequential mode: no per-date candidate mapping
Sequential == DOMAIN date_register_numbers = {}
\* the call has returned its list of schedules
Allocated == pc = "done"
\* the call has ended with a ValidationError and returned nothing
AllocationRaised == pc = "raised"
\* the record of the lab at position i of the lab list cannot be built: the
\* lab name is empty, or a proctor the position selects has an empty id or
\* an empty name
Unnamed(examiner) == examiner.id = "" \/ examiner.name = ""
Unbuildable(i) ==
  \/ labs[i] = ""
  \/ /\ Len(internal_examiners) > 0
     /\ Unnamed(internal_examiners[((i - 1) % Len(internal_examiners)) + 1])
  \/ /\ Len(external_examiners) > 0
     /\ Unnamed(external_examiners[((i - 1) % Len(external_examiners)) + 1])
\* the lab at position i receives a candidate on some date: in sequential
\* mode on the first date, in date-keyed mode on a date whose own list
\* reaches the position
ReceivesChunk(i) ==
  IF Sequential
  THEN Len(dates) > 0 /\ Len(register_numbers) > STUDENTS_PER_LAB * (i - 1)
  ELSE \E k \in DOMAIN dates :
         Len(DictGet(date_register_numbers, dates[k], << >>)) > STUDENTS_PER_LAB * (i - 1)
\* the schedules flattened date, lab, forenoon, afternoon
Flat == get_all_register_numbers(schedules)
\* candidates the dates and labs of the call can hold
Capacity == STUDENTS_PER_LAB * Len(dates) * Len(labs)
\* every input candidate occurs in out, and no value occurs in out twice
ExactlyOnce(in, out) ==
  /\ Range(in) \subseteq Range(out)
  /\ Cardinality(Range(out)) = Len(out)

\* C1 as stated: in sequential mode, for any candidate list without repeats,
\* any date list and any lab list, every input candidate appears in the
\* output schedules exactly once.
C1_EveryCandidateExactlyOnce ==
  (Allocated /\ Sequential) => ExactlyOnce(register_numbers, Flat)

\* C1 amended: in a sequential run that returns, no candidate appears in
\* the output twice and nothing appears that was not given; and when the
\* dates and labs hold all candidates (25 * dates * labs >= candidates)
\* every input candidate appears exactly once.
C1_ExactlyOnceWithinCapacity ==
  (Allocated /\ Sequential) =>
     /\ Cardinality(Range(Flat)) = Len(Flat)
     /\ Range(Flat) \subseteq Range(register_numbers)
     /\ Capacity >= Len(register_numbers) => ExactlyOnce(register_numbers, Flat)

\* 130 candidates, two dates, five labs: all are placed, the last five on
\* the second date.
C1_Witness ==
  /\ Allocated /\ Sequential
  /\ Len(register_numbers) = 130 /\ Len(labs) = 5 /\ Len(dates) = 2
  /\ Len(schedules) = 6
  /\ schedules[6].date = dates[2]
  /\ Len(Flat) = 130

\* C2 as stated: in sequential mode the schedules flattened in emission
\* order are the input candidate list, in the same order.
C2_FlattenedIsInput ==
  (Allocated /\ Sequential) => Flat = register_numbers

\* C2 amended: in a sequential run that returns, the flattened schedules
\* are a prefix of the input list, and the whole list, in order, when the
\* dates and labs hold all candidates (25 * dates * labs >= candidates).
C2_FlattenedIsInputWithinCapacity ==
  (Allocated /\ Sequential) =>
     /\ IsPrefix(Flat, register_numbers)
     /\ Capacity >= Len(register_numbers) => Flat = register_numbers

\* 51 candidates over two dates of two labs: three records, both sessions
\* of the first in use, the third record on the second date.
C2_Witness ==
  /\ Allocated /\ Sequential
  /\ Len(register_numbers) = 51 /\ Len(labs) = 2 /\ Len(dates) = 2
  /\ Len(schedules) = 3
  /\ Len(schedules[1].slots[2].register_numbers) = AFTERNOON_CAPACITY
  /\ schedules[3].date = dates[2]
  /\ Flat = register_numbers /\ Flat[1] # 1

\* C3 as stated: in both modes and for any number of labs and dates, the
\* candidates assigned to one date, summed over the records carrying that
\* date, never exceed 125.
C3_AtMost125PerDate ==
  Allocated =>
     \A d \in DOMAIN count_students_per_date(schedules) :
        count_students_per_date(schedules)[d] <= DAILY_CAPACITY

\* C4: every schedule record, in either mode, holds at most 25 candidates
\* over its two sessions.
C4_AtMost25PerRecord ==
  Allocated => \A i \in DOMAIN schedules : LabCount(schedules[i]) <= STUDENTS_PER_LAB

\* date-keyed mode, a full record and a partly filled one
C4_Witness ==
  /\ Allocated /\ ~Sequential
  /\ \E i \in DOMAIN schedules : LabCount(schedules[i]) = STUDENTS_PER_LAB
  /\ \E i \in DOMAIN schedules : LabCount(schedules[i]) \in 14..24

\* The chunk of the i-th record, read off the arguments: in sequential mode
\* the i-th run of 25 of the candidate list; in date-keyed mode the run of 25
\* of the date's own list at the position of the record's lab in the lab list.
LabIndexOf(lab) == (CHOOSE j \in DOMAIN labs : labs[j] = lab) - 1
ChunkOfRecord(i) ==
  IF Sequential
  THEN Slice(register_numbers, STUDENTS_PER_LAB * (i - 1), STUDENTS_PER_LAB * i)
  ELSE LET own == DictGet(date_register_numbers, schedules[i].date, << >>)
           k == LabIndexOf(schedules[i].lab)
       IN  Slice(own, STUDENTS_PER_LAB * k, STUDENTS_PER_LAB * (k + 1))

\* C5: in every record the forenoon session is the first min(13, n)
\* candidates of its chunk of n and the afternoon session the remainder in
\* order; so forenoon holds at most 13, afternoon at most 12, the afternoon
\* is non-empty only if the forenoon holds exactly 13; both sessions are
\* present, forenoon first, also when the afternoon is empty.
C5_SessionSplit ==
  Allocated =>
     \A i \in DOMAIN schedules :
        LET chunk == ChunkOfRecord(i)
            n == Len(chunk)
            forenoon == schedules[i].slots[1]
            afternoon == schedules[i].slots[2]
        IN  /\ Len(schedules[i].slots) = 2
            /\ forenoon.session = "forenoon" /\ afternoon.session = "afternoon"
            /\ forenoon.register_numbers = SubSeq(chunk, 1, Min(13, n))
            /\ afternoon.register_numbers = SubSeq(chunk, Min(13, n) + 1, n)
            /\ Len(forenoon.register_numbers) <= 13
            /\ Len(afternoon.register_numbers) <= 12
            /\ Len(afternoon.register_numbers) > 0 => Len(forenoon.register_numbers) = 13

\* a full record (13 and 12) followed by one with 5 in the forenoon and an
\* empty afternoon
C5_Witness ==
  /\ Allocated
  /\ Len(schedules) = 2
  /\ Len(schedules[1].slots[1].register_numbers) = 13
  /\ Len(schedules[1].slots[2].register_numbers) = 12
  /\ Len(schedules[2].slots[1].register_numbers) = 5
  /\ schedules[2].slots[2].register_numbers = << >>
  /\ schedules[2].slots[2].session = "afternoon"

(***************************************************************************)
(* Properties of the date selector (specification SpecDates).              *)
(***************************************************************************)
\* select_optimal_dates has run, directly or through the entry point
Selected == sel_pc \in {"returned", "responded"}
\* the pool select_optimal_dates was given: the entry point sorts it first
PoolGiven ==
  IF sel_pc = "responded" THEN parse_dates(available_dates) ELSE available_dates
AllWellFormed(pool) == \A i \in DOMAIN pool : WellFormed(pool[i])
\* ceil(n / 125): the k with 125 * (k - 1) < n <= 125 * k
CeilOfCapacity(n) ==
  CHOOSE k \in -1..(MaxDays + 2) : 125 * (k - 1) < n /\ n <= 125 * k
Required == CeilOfCapacity(student_count)
RelaxedText == "Selected {} dates (gap constraint relaxed due to limited dates)"
ShortfallText == "Warning: Only {} dates available, need {} for {} students"
Relaxed == selection.message.text = RelaxedText
PoolDays == {parse_date(PoolGiven[i]) : i \in DOMAIN PoolGiven}
Earliest(days) == CHOOSE d \in days : \A e \in days : d <= e
IsChronological(q) ==
  \A i \in 1..(Len(q) - 1) : parse_date(q[i]) <= parse_date(q[i + 1])
Occurrences(x, q) == Cardinality({i \in DOMAIN q : q[i] = x})
SameMultiset(a, b) ==
  /\ Len(a) = Len(b)
  /\ \A x \in Range(a) \cup Range(b) : Occurrences(x, a) = Occurrences(x, b)

\* C6: for every candidate count N >= 1, every minimum gap and every pool of
\* dates with at least ceil(N/125) entries, select_optimal_dates returns
\* exactly ceil(N/125) dates, each an element of the pool.
C6_ExactlyRequiredDates ==
  (/\ Selected
   /\ student_count >= 1
   /\ AllWellFormed(PoolGiven)
   /\ Len(PoolGiven) >= Required) =>
     /\ ~selection.raised
     /\ Len(selection.selected) = Required
     /\ Range(selection.selected) \subseteq Range(PoolGiven)

\* 251 candidates need three days: three are returned from a pool of three
C6_Witness ==
  /\ sel_pc = "returned"
  /\ student_count = 251
  /\ min_gap_days = 5
  /\ available_dates = << << 15, 1, 25 >>, << 31, 12, 24 >>, << 10, 1, 25 >> >>
  /\ Len(selection.selected) = 3

\* The selection is the greedy one: it starts at the earliest pool date, and
\* each further date is the earliest pool date at least min_gap_days days
\* after the date selected before it.
GreedyShape ==
  LET sel == selection.selected
  IN  /\ Len(sel) >= 1 => parse_date(sel[1]) = Earliest(PoolDays)
      /\ \A i \in 2..Len(sel) :
           LET far == {d \in PoolDays : d >= parse_date(sel[i - 1]) + min_gap_days}
           IN  /\ far # {}
               /\ parse_date(sel[i]) = Earliest(far)
               /\ date_diff_days(sel[i - 1], sel[i]) >= min_gap_days

\* C7 as stated: when minGapDays > 1, more than one day is required and
\* select_optimal_dates returns without the gap-relaxation message, the
\* selection is the greedy one, so consecutive selected dates are at least
\* minGapDays apart.
C7_GreedyUnlessRelaxed ==
  (/\ Selected /\ ~selection.raised
   /\ min_gap_days > 1
   /\ Required > 1
   /\ ~Relaxed) => GreedyShape

\* C7 amended: the same, for a pool that holds at least requiredDays dates;
\* and the documented scenario (pool 10-01-25, 11-01-25, 15-01-25, 200
\* candidates, gap 3) gives exactly 10-01-25 and 15-01-25, unrelaxed.
C7_GreedyWhenPoolSuffices ==
  /\ (/\ Selected /\ ~selection.raised
      /\ min_gap_days > 1
      /\ Required > 1
      /\ Len(PoolGiven) >= Required
      /\ ~Relaxed) => (Len(selection.selected) >= 1 /\ GreedyShape)
  /\ (/\ Selected
      /\ available_dates = << << 10, 1, 25 >>, << 11, 1, 25 >>, << 15, 1, 25 >> >>
      /\ student_count = 200
      /\ min_gap_days = 3) =>
        (selection.selected = << << 10, 1, 25 >>, << 15, 1, 25 >> >> /\ ~Relaxed)

\* two days needed with a gap of 3, pool 15, 10, 11 January: the 10th and,
\* skipping the 11th, the 15th
C7_Witness ==
  /\ sel_pc = "returned"
  /\ student_count = 200
  /\ min_gap_days = 3
  /\ available_dates = << << 15, 1, 25 >>, << 10, 1, 25 >>, << 11, 1, 25 >> >>
  /\ selection.selected = << << 10, 1, 25 >>, << 15, 1, 25 >> >>
  /\ ~Relaxed

\* The number of dates a walk from day collects, each the earliest pool day
\* at least gap (>= 1) days after the one before
RECURSIVE ChainLength(_, _, _)
ChainLength(day, days, gap) ==
  LET far == {d \in days : d >= day + gap}
  IN  IF far = {} THEN 1 ELSE 1 + ChainLength(Earliest(far), days, gap)

\* the greedy walk takes place and honours the gap for fewer than Required dates
WalkFallsShort ==
  /\ Selected
  /\ AllWellFormed(PoolGiven)
  /\ min_gap_days > 1
  /\ Required > 1
  /\ Len(PoolGiven) >= Required
  /\ ChainLength(Earliest(PoolDays), PoolDays, min_gap_days) < Required

\* C8: when the greedy walk collects fewer than requiredDays dates honouring
\* the gap (the pool holding at least requiredDays dates), the result is
\* exactly the first requiredDays dates of the chronologically sorted pool,
\* with a message saying that the gap constraint was relaxed.
C8_RelaxedFallback ==
  WalkFallsShort =>
     /\ ~selection.raised
     /\ Len(selection.selected) = Required
     /\ selection.selected = SubSeq(SortedByDate(PoolGiven), 1, Required)
     /\ IsChronological(selection.selected)
     /\ Relaxed

\* three days needed with a gap of 3, pool 15, 11, 10 January: relaxed
C8_Witness ==
  /\ sel_pc = "returned"
  /\ student_count = 251
  /\ min_gap_days = 3
  /\ available_dates = << << 15, 1, 25 >>, << 11, 1, 25 >>, << 10, 1, 25 >> >>
  /\ selection.selected = << << 10, 1, 25 >>, << 11, 1, 25 >>, << 15, 1, 25 >> >>
  /\ Relaxed

\* C9: when the pool of dates is non-empty but has fewer dates than
\* ceil(N/125), select_optimal_dates returns the entire pool sorted
\* chronologically with a shortfall advisory message, not an error.
C9_ShortfallReturnsWholePool ==
  (/\ Selected
   /\ Len(PoolGiven) >= 1
   /\ AllWellFormed(PoolGiven)
   /\ Len(PoolGiven) < Required) =>
     /\ ~selection.raised
     /\ SameMultiset(selection.selected, PoolGiven)
     /\ IsChronological(selection.selected)
     /\ selection.message.text = ShortfallText
     /\ selection.message.args = << Len(PoolGiven), Required, student_count >>

\* four days needed, two dates given out of order: both come back, sorted
C9_Witness ==
  /\ sel_pc = "returned"
  /\ student_count = 376
  /\ available_dates = << << 15, 1, 25 >>, << 31, 12, 24 >> >>
  /\ selection.selected = << << 31, 12, 24 >>, << 15, 1, 25 >> >>
  /\ selection.message.text = ShortfallText

\* C10 as stated: select_optimal_dates never fails: for every pool of date
\* tokens, a malformed token included, every candidate count and every
\* minimum gap, it returns a pair (selected dates, message) and does not
\* raise.
C10_NeverRaises == Selected => ~selection.raised

(***************************************************************************)
(* Properties of the input normalisers, under SpecParsers.                 *)
(***************************************************************************)
Deduplicated == parse_pc = "deduplicated"
DatesParsed == parse_pc = "sorted"
NoRepeats(q) == \A i, j \in DOMAIN q : i # j => q[i] # q[j]

\* the elements of q at the positions in I, in the order of q
RECURSIVE KeepFrom(_, _, _)
KeepFrom(q, I, i) ==
  IF i > Len(q) THEN << >>
  ELSE (IF i \in I THEN << q[i] >> ELSE << >>) \o KeepFrom(q, I, i + 1)
Keep(q, I) == KeepFrom(q, I, 1)

FirstOccurrences(q) == {i \in DOMAIN q : \A j \in 1..(i - 1) : q[j] # q[i]}
RepeatOccurrences(q) == DOMAIN q \ FirstOccurrences(q)

\* C11: for every input sequence, remove_duplicates returns (unique,
\* duplicates) where unique has no repeated value, unique has the same set
\* of values as the input, len(unique) + len(duplicates) = len(input), and
\* unique together with duplicates is the input as a multiset.
C11_DeduplicationInvariants ==
  Deduplicated =>
    /\ NoRepeats(unique_numbers)
    /\ Range(unique_numbers) = Range(raw_numbers)
    /\ Len(unique_numbers) + Len(removed_duplicates) = Len(raw_numbers)
    /\ SameMultiset(unique_numbers \o removed_duplicates, raw_numbers)

C11_Witness ==
  /\ Deduplicated
  /\ raw_numbers = << 1, 2, 1, 1 >>
  /\ unique_numbers = << 1, 2 >>
  /\ removed_duplicates = << 1, 1 >>

\* C12: remove_duplicates is order-stable: unique lists the distinct values
\* in the order of their first occurrence in the input, duplicates lists
\* the repeated occurrences in the order they were met, and an input with
\* no repeats is returned unchanged with an empty duplicates list.
C12_OrderStable ==
  Deduplicated =>
    /\ unique_numbers = Keep(raw_numbers, FirstOccurrences(raw_numbers))
    /\ removed_duplicates = Keep(raw_numbers, RepeatOccurrences(raw_numbers))
    /\ NoRepeats(raw_numbers) =>
         unique_numbers = raw_numbers /\ removed_duplicates = << >>

C12_Witness ==
  /\ Deduplicated
  /\ raw_numbers = << 3, 1, 3, 1 >>
  /\ unique_numbers = << 3, 1 >>
  /\ removed_duplicates = << 3, 1 >>

Stripped(q) == [i \in DOMAIN q |-> Strip(q[i])]
Malformed(q) == SelectSeq(q, LAMBDA tok : ~WellFormed(tok))
\* the well-formed tokens of q come first, in date order, the others last
DatesThenMalformed(q) ==
  \E k \in 0..Len(q) :
    /\ \A i \in 1..k : WellFormed(q[i])
    /\ IsChronological(SubSeq(q, 1, k))
    /\ \A i \in (k + 1)..Len(q) : ~WellFormed(q[i])

\* C13 as stated: for every list of date tokens, parse_dates returns a
\* permutation of the input in which the well-formed tokens come first in
\* non-decreasing date order and the malformed tokens come last in their
\* original relative order.
C13_PermutationOfInput ==
  DatesParsed =>
    /\ SameMultiset(sorted_strings, date_strings)
    /\ DatesThenMalformed(sorted_strings)
    /\ Malformed(sorted_strings) = Malformed(date_strings)

\* C13, amended: parse_dates returns a permutation of the input tokens each
\* stripped of the whitespace around it; the tokens that are well-formed
\* once stripped come first in non-decreasing date order, and the tokens
\* malformed even then come last in their original relative order.
C13_PermutationOfStrippedInput ==
  DatesParsed =>
    /\ SameMultiset(sorted_strings, Stripped(date_strings))
    /\ DatesThenMalformed(sorted_strings)
    /\ Malformed(sorted_strings) = Malformed(Stripped(date_strings))

C13_Witness ==
  /\ DatesParsed
  /\ date_strings = << << 5, 13, 25 >>, << 11, 1, 25, " " >>, << 32, 1, 25 >> >>
  /\ sorted_strings = << << 11, 1, 25 >>, << 5, 13, 25 >>, << 32, 1, 25 >> >>

(***************************************************************************)
(* Properties of the generate pipeline, under SpecGenerate.                *)
(***************************************************************************)
Responded == gen_pc = "responded"
\* the call of generate_schedule is over: it has answered, or an exception
\* has left it
Finished == gen_pc \in {"responded", "raised"}
\* the candidates and the dates the request resolves to
Candidates == remove_duplicates(Request_get_all_register_numbers(payload))[1]
ResolvedDates == get_dates(payload)
\* every date token the request carries, in either field
SuppliedDates ==
  Range(payload.dates) \cup {payload.exam_dates[i].date : i \in DOMAIN payload.exam_dates}
HasError(field) == \E i \in DOMAIN response.errors : response.errors[i].field = field
HasWarning(text) == \E i \in DOMAIN response.warnings : response.warnings[i].text = text
Blocked == ~response.success /\ response.data = None /\ allocate_calls = << >>

\* C14 as stated: whenever the deduplicated candidate list is empty the
\* result carries an error tagged 'register_numbers', whenever any supplied
\* date token is malformed it carries an error tagged 'dates', and in
\* either case the response is a failure and allocate_students is not
\* invoked.
C14_StructuralErrorsTagged ==
  Responded =>
    /\ Len(Candidates) = 0 => HasError("register_numbers") /\ Blocked
    /\ (\E tok \in SuppliedDates : ~WellFormed(Strip(tok))) => HasError("dates") /\ Blocked

\* C14, amended: an empty deduplicated candidate list gives an error tagged
\* 'register_numbers'; a token, malformed even when stripped, among the
\* dates the request resolves to gives an error tagged 'dates' when there
\* is a candidate; in either case the response is a failure and
\* allocate_students is not invoked.
C14_StructuralErrorsBlock ==
  Responded =>
    LET malformed == \E i \in DOMAIN ResolvedDates : ~WellFormed(Strip(ResolvedDates[i]))
    IN  /\ Len(Candidates) = 0 => HasError("register_numbers")
        /\ malformed /\ Len(Candidates) > 0 => HasError("dates")
        /\ Len(Candidates) = 0 \/ malformed => Blocked

C14_Witness ==
  /\ Responded
  /\ payload.register_numbers = << 7, 7 >>
  /\ payload.semesters = << >>
  /\ payload.exam_dates = << >>
  /\ payload.dates = << D1, BadDate >>
  /\ HasError("dates")
  /\ ~HasError("register_numbers")
  /\ Blocked

NoDatesText == "No dates provided. Please add exam dates for scheduling."
FewDatesText == "Note: {} students may need {} dates. You provided {}."
DefaultLabsText == "Using default labs: {}"
NoInternalText ==
  "No internal examiners provided. Schedule will be generated without examiner assignments."
NoExternalText ==
  "No external examiners provided. Schedule will be generated without examiner assignments."

\* the one call of allocate_students gives a candidate to a lab whose name
\* is empty: in sequential mode there is a date and the candidates reach the
\* position of the lab, in date-keyed mode the list of some date does
EmptyLabReceives ==
  LET args == allocate_calls[1]
      Reaches(i, regs) == Len(regs) > STUDENTS_PER_LAB * (i - 1)
  IN  \E i \in DOMAIN args.labs :
        /\ args.labs[i] = ""
        /\ IF DOMAIN args.date_register_numbers = {}
           THEN Len(args.dates) > 0 /\ Reaches(i, args.register_numbers)
           ELSE \E k \in DOMAIN args.dates :
                  Reaches(i, DictGet(args.date_register_numbers, args.dates[k], << >>))

C16_SameRequiredDays ==
  LET required == calculate_required_dates(student_count)
      provided == Len(available_dates)
      additional == calculate_additional_dates_needed(student_count, provided)
  IN  /\ required = CeilOfCapacity(student_count)
      /\ additional = Max(0, CeilOfCapacity(student_count) - provided)
      \* the entry points' answers
      /\ planning.required_days # None => planning.required_days[1] = required
      /\ planning.additional_dates_needed # None =>
           planning.additional_dates_needed[1] = additional
      \* the selector: the count its shortfall message names, and the number
      \* of dates it returns from a pool of enough dates
      /\ Selected /\ selection.message.text = ShortfallText =>
           selection.message.args[2] = required
      /\ Selected /\ ~selection.raised /\ provided >= required /\ provided > 0 =>
           Len(selection.selected) = required

C16_Witness ==
  /\ sel_pc = "calculated"
  /\ student_count = 2 * DAILY_CAPACITY + 1
  /\ Len(available_dates) = 1
  /\ planning.required_days = Some(3)
  /\ planning.additional_dates_needed = Some(2)
  /\ calculate_required_dates(student_count) = 3

(***************************************************************************)
(* Proctors and cohorts of the emitted schedules, under Spec.              *)
(***************************************************************************)
\* the proctor a pool gives the lab at position i (from 0) of the lab list
PoolMember(pool, i) == IF Len(pool) = 0 THEN None ELSE Some(pool[(i % Len(pool)) + 1])

\* C17: for every emitted schedule whose lab sits at position i of the lab
\* list, the internal proctor is internalPool[i mod len(internalPool)] and
\* the external proctor externalPool[i mod len(externalPool)], whatever the
\* date and however many schedules earlier dates got; with an empty pool
\* the proctor field is absent.
C17_ProctorByLabPosition ==
  Allocated =>
    \A r \in DOMAIN schedules :
      LET i == LabIndexOf(schedules[r].lab)
      IN  /\ schedules[r].internal_examiner = PoolMember(internal_examiners, i)
          /\ schedules[r].external_examiner = PoolMember(external_examiners, i)

\* the sixth schedule is the second lab of the second date, after four labs
\* on the first date: its proctors are the second of each pool
C17_Witness ==
  /\ Allocated
  /\ Sequential
  /\ dates = << D1, D2 >>
  /\ Len(labs) = 4
  /\ Len(schedules) = 6
  /\ schedules[6].date = D2
  /\ schedules[6].lab = "Lab 2"
  /\ schedules[6].internal_examiner = Some(InternalPool[2])
  /\ schedules[6].external_examiner = Some(ExternalPool[2])
  /\ schedules[4].internal_examiner = Some(InternalPool[2])
  /\ schedules[4].external_examiner = Some(ExternalPool[1])

\* the candidate-to-cohort lookup and, for the chunk of a record, the
\* (semester, batch label) pairs of its candidates and their tallies
PairsIn(chunk, lookup) ==
  {lookup[chunk[k]] : k \in {j \in DOMAIN chunk : chunk[j] \in DOMAIN lookup}}
Tally(chunk, lookup, pair) ==
  Cardinality({k \in DOMAIN chunk : chunk[k] \in DOMAIN lookup /\ lookup[chunk[k]] = pair})
\* q lists the strings of S once each in increasing lexicographic order
ListsInOrder(q, S) ==
  /\ Range(q) = S
  /\ Len(q) = Cardinality(S)
  /\ \A k \in 1..(Len(q) - 1) : StrLess(q[k], q[k + 1])

\* C18: only candidates present in the lookup are tallied per (semester,
\* batch label) pair; the schedule's semester is that of a pair with the
\* highest tally; the batch field is that pair's label when exactly one
\* pair occurs in the chunk and otherwise the comma-joined, sorted list of
\* all distinct batch labels occurring in the chunk; when no candidate of
\* the chunk is in the lookup both fields are unset.
C18_CohortAttribution ==
  Allocated =>
    LET lookup == RegToSemBatch(semesters)
        Most(chunk, pairs, pair) ==
          \A other \in pairs : Tally(chunk, lookup, other) <= Tally(chunk, lookup, pair)
    IN
    \A r \in DOMAIN schedules :
      LET chunk == ChunkOfRecord(r)
          pairs == PairsIn(chunk, lookup)
          labels == {pair[2] : pair \in pairs}
      IN  IF pairs = {}
          THEN schedules[r].semester = None /\ schedules[r].batch = None
          ELSE /\ \E pair \in pairs :
                    /\ Most(chunk, pairs, pair)
                    /\ schedules[r].semester = Some(pair[1])
                    /\ Cardinality(pairs) = 1 => schedules[r].batch = Some(pair[2])
               /\ Cardinality(pairs) > 1 =>
                    \E q \in SeqsUpTo(labels, Cardinality(labels)) :
                      /\ ListsInOrder(q, labels)
                      /\ schedules[r].batch = Some(Join(<< ",", " " >>, q))

\* eight candidates 8..1 in one chunk: two of S2A, four of S1A, two of S1B
C18_Witness ==
  /\ Allocated
  /\ Sequential
  /\ semesters = Cohorts
  /\ register_numbers = RegList(8)
  /\ Len(schedules) = 1
  /\ schedules[1].semester = Some(<< "S", "1" >>)
  /\ schedules[1].batch = Some(<< "S", "1", "A", ",", " ", "S", "1", "B", ",", " ",
                                  "S", "2", "A" >>)

(***************************************************************************)
(* Properties of the image analysis (specification SpecImage).             *)
(***************************************************************************)
\* the reply is a success reply whose body carries choices[0].message.content
Usable(reply) == reply.kind = "response" /\ reply.status = 200 /\ reply.body_ok
\* analyze_image_with_groq has returned
Analysed == img_pc \in {"returned", "responded"} /\ analysis.returned
\* the call was not cancelled and is not in the middle of an iteration
BetweenIterations == img_pc \notin {"awaiting", "closing", "cancelled"}

\* C19: the vision models are tried in the fixed order of the list, each at
\* most once; a model is tried only after every earlier one failed, and the
\* first usable success reply ends the loop with that reply's content as the
\* result, no later model being called.  The models posted to are a prefix
\* of the list, with one reply each except for a post still in flight; a
\* usable reply is the reply of the last model posted to, is followed by no
\* further post, and its content is the only value the call can return.
C19_FirstSuccessInFixedOrder ==
  /\ Len(replies) <= Len(attempts) /\ Len(attempts) <= Len(replies) + 1
  /\ Len(attempts) = Len(replies) + 1 => img_pc \in {"awaiting", "cancelled"}
  /\ Len(attempts) <= Len(models_to_try)
  /\ attempts = SubSeq(models_to_try, 1, Len(attempts))
  /\ \A i \in 1..Len(replies) : i < Len(attempts) => ~Usable(replies[i])
  /\ (Len(replies) > 0 /\ Usable(replies[Len(replies)])) =>
       /\ Len(attempts) = Len(replies)
       /\ img_pc \in {"closing", "returned", "responded", "cancelled"}
       /\ analysis.returned => analysis.value = ContentValue(replies[Len(replies)].content)
       /\ BetweenIterations => Analysed
  /\ img_pc \in {"calling", "awaiting"} =>
       /\ \A i \in 1..Len(replies) : ~Usable(replies[i])
  /\ img_pc = "calling" => model_index = Len(attempts) + 1

\* the third model answers after an exception and an unsupported-model reply
C19_Witness ==
  /\ img_pc = "returned"
  /\ Len(replies) = 3
  /\ replies[1].kind = "exception"
  /\ replies[2].kind = "response" /\ replies[2].status = 400 /\ replies[2].mentions_model
  /\ Usable(replies[3])
  /\ attempts = SubSeq(models_to_try, 1, 3)
  /\ analysis.value = Some(Content("str", SheetText))

\* every model of the list was tried and none gave a usable success reply
AllFailed ==
  /\ Len(replies) = Len(models_to_try)
  /\ \A i \in 1..Len(replies) : ~Usable(replies[i])

\* the call has ended with asyncio.CancelledError leaving analyze_image
Raised == img_pc = "cancelled"

\* C20 as the specification states it: when every model of the list has
\* failed, the call never raises; it ends after the last model with the
\* result None and the endpoint answers the analysis failure.
C20_NeverRaises ==
  /\ img_pc = "calling" => Len(attempts) < Len(models_to_try)
  /\ AllFailed =>
       /\ ~Raised
       /\ img_pc \in {"closing", "returned", "responded"}
       /\ img_pc # "closing" => (Analysed /\ analysis.value = None)
       /\ img_pc = "responded" => image_response = ImageFailure(AnalysisFailedText)

\* C20, amended: when every model fails, whether by exception, by a
\* non-success status or by a success reply without content, no seventh post
\* is made and the call ends after the last model in one of two ways.  It
\* returns None, no Exception reaching the endpoint, and the endpoint
\* answers success false with the analysis-failed message, no semesters and
\* no extracted data; or it is cancelled while the last client is closed,
\* asyncio.CancelledError passes both "except Exception" handlers, and there
\* is neither a return value nor an answer.  A cancellation is the only way
\* the call raises, and it never leaves a partial answer.
C20_AllFailuresGiveNoneUnlessCancelled ==
  /\ img_pc = "calling" => Len(attempts) < Len(models_to_try)
  /\ AllFailed =>
       /\ img_pc \in {"closing", "returned", "responded", "cancelled"}
       /\ ~Raised /\ img_pc # "closing" => (Analysed /\ analysis.value = None)
       /\ img_pc = "responded" => image_response = ImageFailure(AnalysisFailedText)
  /\ Raised =>
       /\ ~analysis.returned
       /\ image_response = NoImageResponse
  /\ (Analysed /\ analysis.value = None /\ ~AllFailed) =>
       /\ Usable(replies[Len(replies)])
       /\ replies[Len(replies)].content.kind = "null"

\* all six models failed in different ways and the endpoint has answered
C20_Witness ==
  /\ img_pc = "responded"
  /\ AllFailed
  /\ \E i, j, k \in 1..Len(replies) :
       /\ replies[i].kind = "exception"
       /\ replies[j].kind = "response" /\ replies[j].status = 500
       /\ replies[k].kind = "response" /\ replies[k].status = 200
  /\ attempts = models_to_try
  /\ image_response.success = FALSE
  /\ image_response.error = Some(AnalysisFailedText)
  /\ image_response.semesters = << >>

(***************************************************************************)
(* Further properties of the allocation engine (specification Spec).       *)
(***************************************************************************)
\* the sublist of a date in the per-date mapping, [] for a date without one
OwnList(d) == DictGet(date_register_numbers, d, << >>)
\* what allocate_students returns for the date d alone, given only the
\* sublist of d and no global candidate list
AloneOn(d) ==
  IF d \in DOMAIN date_register_numbers
  THEN allocate_students(<< >>, << d >>, labs, internal_examiners, external_examiners,
                         semesters, date_subjects,
                         (d :> date_register_numbers[d])).schedules
  ELSE << >>

\* C21: in date-keyed mode the schedules are, date after date in the order
\* of the date list, what each date yields alone from its own sublist: the
\* first min(n, 25 * labs) candidates of the sublist in order, in records
\* that start again at the first lab and follow the lab list; neither the
\* global candidate list nor the sublist of another date changes them.
C21_DatesAllocatedIndependently ==
  (Allocated /\ ~Sequential) =>
     /\ schedules = Concat([k \in DOMAIN dates |-> AloneOn(dates[k])])
     /\ \A k \in DOMAIN dates :
          LET alone == AloneOn(dates[k])
              own == OwnList(dates[k])
          IN  /\ get_all_register_numbers(alone)
                   = SubSeq(own, 1, Min(Len(own), STUDENTS_PER_LAB * Len(labs)))
              /\ \A j \in DOMAIN alone :
                   /\ alone[j].date = dates[k]
                   /\ alone[j].lab = labs[j]

\* the first date ends on a partly filled record with labs to spare, and the
\* second date starts again at the first lab with its own first candidate
C21_Witness ==
  /\ Allocated /\ ~Sequential
  /\ dates = << D1, D2 >>
  /\ Len(labs) = 5
  /\ Len(schedules) = 6
  /\ schedules[3].date = D1 /\ LabCount(schedules[3]) = 15
  /\ schedules[4].date = D2 /\ schedules[4].lab = labs[1]
  /\ schedules[4].slots[1].register_numbers[1] = OwnList(D2)[1]
  /\ Len(OwnList(D1)) = 65

\* C22: with no date or no lab, whatever the candidates and in either mode,
\* allocate_students does not fail and returns the empty schedule list; on
\* any input the call fails exactly when a lab that receives candidates has
\* an empty name or a proctor with an empty id or name.
C22_EmptyOnNoDatesOrNoLabs ==
  pc # "ready" =>
     /\ (Len(dates) = 0 \/ Len(labs) = 0) => Allocated /\ schedules = << >>
     /\ AllocationRaised <=> \E i \in DOMAIN labs : Unbuildable(i) /\ ReceivesChunk(i)
     /\ AllocationRaised => schedules = << >>

\* date-keyed mode, two dates with candidates on both, and no lab
C22_Witness ==
  /\ Allocated /\ ~Sequential
  /\ Len(labs) = 0
  /\ dates = << D1, D2 >>
  /\ Len(OwnList(D1)) > 0 /\ Len(OwnList(D2)) > 0
  /\ schedules = << >>

(***************************************************************************)
(* Properties of the CSV text (specification SpecParsers).                 *)
(***************************************************************************)
CsvRead == parse_pc = "read"

\* C23: for any list of register numbers of letters and digits,
\* parse_csv_register_numbers(format_csv_register_numbers(list)) is the
\* list: the same elements in the same order.
C23_CsvRoundTrip ==
  CsvRead => csv_parsed = csv_numbers

\* what allocate_students returns in sequential mode for the candidate list regs
SequentialRun(regs) ==
  allocate_students(regs, dates, labs, internal_examiners, external_examiners,
                    semesters, date_subjects, EmptyDict).schedules

\* C24: in sequential mode with N candidates, D dates and L labs the
\* flattened schedules are exactly the first min(N, 25 * D * L) candidates of
\* the input, in input order; the candidates beyond are left out and the
\* returned list is the very list returned for the input cut to the
\* candidates that fit, so nothing in it tells of the omission.
C24_PrefixUpToCapacity ==
  (Allocated /\ Sequential) =>
     LET fit == Min(Len(register_numbers), Capacity)
     IN  /\ Flat = SubSeq(register_numbers, 1, fit)
         /\ schedules = SequentialRun(SubSeq(register_numbers, 1, fit))

\* 130 candidates, one date, five labs: the first 125 are placed, five left out
C24_Witness ==
  /\ Allocated /\ Sequential
  /\ Len(register_numbers) = 130 /\ Len(dates) = 1 /\ Len(labs) = 5
  /\ Len(Flat) = 125
  /\ Flat[125] = register_numbers[125]
  /\ register_numbers[126] \notin Range(Flat)

\* ceil(n / 25)
ChunksOf(n) == (n + STUDENTS_PER_LAB - 1) \div STUDENTS_PER_LAB

\* C25: in sequential mode the records come in date order and, within a
\* date, in lab-list order, without a gap: the i-th record is on lab
\* (i - 1) mod L of date (i - 1) div L; every record holds at least one
\* candidate, every record but the last exactly 25, and there are
\* min(ceil(N / 25), D * L) records.
C25_CompactSchedule ==
  (Allocated /\ Sequential) =>
     /\ Len(schedules) = Min(ChunksOf(Len(register_numbers)), Len(dates) * Len(labs))
     /\ \A i \in DOMAIN schedules :
          /\ schedules[i].date = dates[((i - 1) \div Len(labs)) + 1]
          /\ schedules[i].lab = labs[((i - 1) % Len(labs)) + 1]
          /\ LabCount(schedules[i]) >= 1
          /\ i < Len(schedules) => LabCount(schedules[i]) = STUDENTS_PER_LAB

\* 130 candidates, two dates, five labs: five full records on the first
\* date and one record on the second with 5 in the forenoon and none in the
\* afternoon
C25_Witness ==
  /\ Allocated /\ Sequential
  /\ Len(register_numbers) = 130 /\ dates = << D1, D2 >> /\ Len(labs) = 5
  /\ Len(schedules) = 6
  /\ \A i \in 1..5 : schedules[i].date = D1 /\ LabCount(schedules[i]) = 25
  /\ schedules[6].date = D2 /\ schedules[6].lab = labs[1]
  /\ Len(schedules[6].slots[1].register_numbers) = 5
  /\ Len(schedules[6].slots[2].register_numbers) = 0

(***************************************************************************)
(* Further properties of the date selector (specification SpecDates).      *)
(***************************************************************************)
\* the sets of k pool days any two of which are at least gap days apart
SpacedChoices(days, k, gap) ==
  {T \in SUBSET days :
     /\ Cardinality(T) = k
     /\ \A a, b \in T : a < b => b - a >= gap}

\* C26: for minGapDays > 1 and a pool with at least requiredDays dates, the
\* gap-relaxed fallback is taken only if the pool has no requiredDays dates
\* whose chronologically consecutive members are all at least minGapDays
\* apart.
C26_FallbackOnlyWhenNoSpacedChoice ==
  (/\ Selected
   /\ AllWellFormed(PoolGiven)
   /\ min_gap_days > 1
   /\ Len(PoolGiven) >= Required
   /\ Relaxed) => SpacedChoices(PoolDays, Required, min_gap_days) = {}

\* two days needed with a gap of 6, pool 11, 15, 10 January: no two of them
\* are six days apart, and the first two in date order are returned
C26_Witness ==
  /\ sel_pc = "returned"
  /\ student_count = 200
  /\ min_gap_days = 6
  /\ available_dates = << << 11, 1, 25 >>, << 15, 1, 25 >>, << 10, 1, 25 >> >>
  /\ selection.selected = << << 10, 1, 25 >>, << 11, 1, 25 >> >>
  /\ Relaxed

\* no two positions of the selection hold the same calendar day
DistinctDays(q) ==
  \A i, j \in DOMAIN q : i # j => parse_date(q[i]) # parse_date(q[j])

\* C27: the dates select_optimal_dates returns are in chronological order
\* and are pairwise distinct calendar days, for every pool, also one that
\* lists a day more than once, and every minimum gap, the default 1 included.
C27_ChronologicalDistinctDays ==
  (Selected /\ ~selection.raised /\ min_gap_days >= 1) =>
     /\ IsChronological(selection.selected)
     /\ DistinctDays(selection.selected)

(***************************************************************************)
(* Cohort attribution under ties (specification Spec).                     *)
(***************************************************************************)
\* the places << semester index, batch index >> of the cohort structure
\* that list the candidate reg_no
Listings(reg_no) ==
  {x \in UNION {{<< i, j >> : j \in DOMAIN semesters[i].batches} : i \in DOMAIN semesters} :
     reg_no \in Range(semesters[x[1]].batches[x[2]].register_numbers)}
\* the last of them in the order of the structure
LastListing(reg_no) ==
  CHOOSE x \in Listings(reg_no) :
    \A y \in Listings(reg_no) : y[1] < x[1] \/ (y[1] = x[1] /\ y[2] <= x[2])
\* the (semester, batch label) pair of the last batch that lists reg_no
LastBatchOf(reg_no) ==
  LET x == LastListing(reg_no)
      sem == semesters[x[1]]
  IN  << sem.name, sem.name \o sem.batches[x[2]].name >>

\* C28: when several (semester, batch label) pairs share the highest tally
\* in a chunk, the record's semester is that of the tied pair whose first
\* member comes earliest in the chunk; a candidate listed in more than one
\* batch counts for the last batch that lists it.
C28_TiesByFirstAppearance ==
  Allocated =>
    \A r \in DOMAIN schedules :
      LET chunk == ChunkOfRecord(r)
          listed == {k \in DOMAIN chunk : Listings(chunk[k]) # {}}
          pair_at == [k \in listed |-> LastBatchOf(chunk[k])]
          pairs == {pair_at[k] : k \in listed}
          tally == [p \in pairs |-> Cardinality({k \in listed : pair_at[k] = p})]
          first == [p \in pairs |-> CHOOSE k \in listed :
                                      /\ pair_at[k] = p
                                      /\ \A j \in listed : pair_at[j] = p => k <= j]
          top == {p \in pairs : \A q \in pairs : tally[q] <= tally[p]}
      IN  pairs # {} =>
            LET winner == CHOOSE p \in top : \A q \in top : first[p] <= first[q]
            IN  /\ schedules[r].semester = Some(winner[1])
                /\ Cardinality(pairs) = 1 => schedules[r].batch = Some(winner[2])

\* candidates 8, 7, 6, 5 on the first date: two of S2A, met first, and two
\* of S1A; candidates 4, 3, 2, 1 on the second: 3 counts for S1A, the last
\* batch that lists it, which ties S1A, met first, with S1B
C28_Witness ==
  /\ Allocated /\ ~Sequential
  /\ semesters = Cohorts
  /\ dates = << D1, D2 >>
  /\ OwnList(D1) = << 8, 7, 6, 5 >>
  /\ OwnList(D2) = << 4, 3, 2, 1 >>
  /\ Len(schedules) = 2
  /\ schedules[1].semester = Some(<< "S", "2" >>)
  /\ schedules[2].semester = Some(<< "S", "1" >>)
  /\ schedules[2].batch = Some(<< "S", "1", "A", ",", " ", "S", "1", "B" >>)

(***************************************************************************)
(* The validation entry point against the generation entry point           *)
(* (specification SpecGenerate).                                           *)
(***************************************************************************)
Validated == validate_response # None
ErrorFields(errors) == {errors[i].field : i \in DOMAIN errors}

\* C29: for every request, with its dates in the legacy dates field or
\* inside exam_dates, validate_schedule reports success exactly when
\* generate_schedule is not blocked by errors, and both report the same set
\* of error fields.
C29_ValidateAgreesWithGenerate ==
  (Responded /\ Validated) =>
     /\ validate_response[1].success = ~Blocked
     /\ ErrorFields(validate_response[1].errors) = ErrorFields(response.errors)

\* the candidates of the response's records that carry the date d, in order
OnDate(d) ==
  LET scheds == response.data[1].schedule
  IN  get_all_register_numbers(
        SelectSeq(scheds, LAMBDA record : record.date = d))

\* C30: every candidate sequence generate_schedule hands to
\* allocate_students is free of repeats, the global list and each per-date
\* sublist of date-keyed mode alike, so that no candidate appears twice
\* among the records of one date in the response.
C30_AllocatorInputsDeduplicated ==
  (Responded /\ allocate_calls # << >>) =>
     LET args == allocate_calls[1]
     IN  /\ NoRepeats(args.register_numbers)
         /\ \A d \in DOMAIN args.date_register_numbers :
              NoRepeats(args.date_register_numbers[d])
         /\ \A d \in Range(args.dates) : NoRepeats(OnDate(d))

====
